---- MODULE Spec2Model ----
(***************************************************************************)
(* Model of the terminal backend of mdr (src/src/backend/tui.rs): the      *)
(* markdown line classifier, the element builder, the row index, the       *)
(* painter's scroll window, incremental search, and the main loop with its *)
(* file-watcher channel (src/src/core/watcher.rs).                         *)
(*                                                                         *)
(* A string is a sequence of one-character strings.  The documents are     *)
(* ASCII, so Rust's byte offsets and lengths are character offsets and     *)
(* lengths.  Box-drawing and glyph characters, which the module's strings  *)
(* cannot hold, are single characters with ASCII names (BoxH, BoxV, ...).  *)
(***************************************************************************)
EXTENDS Integers, Sequences, FiniteSets, TLC

VARIABLES
    watcher_rx,        \* number of () signals queued in the mpsc channel
    content,           \* app.content
    rendered,          \* app.rendered
    toc_entries,       \* app.toc_entries
    picker,            \* app.picker: TRUE for Some(picker), FALSE for None
    scroll_offset,     \* app.scroll_offset
    toc_selected,      \* app.toc_selected
    focus_toc,         \* app.focus_toc
    should_quit,       \* app.should_quit
    search_mode,       \* app.search_mode
    search_query,      \* app.search_query
    search_matches,    \* app.search_matches
    current_match_idx, \* app.current_match_idx
    content_height,    \* inner_area.height of the last frame
    frame,             \* what terminal.draw put on the screen in this iteration
    pc,                \* position in the main loop of run
    key,               \* the key the previous iteration handled, if a search or jump key
    iter,              \* what the file-change check of this iteration did
    rebuild_query      \* history: the query at the last rebuild of this search session

vars == <<watcher_rx, content, rendered, toc_entries,
          picker, scroll_offset, toc_selected, focus_toc, should_quit,
          search_mode, search_query, search_matches, current_match_idx,
          content_height, frame, pc, key, iter, rebuild_query>>

----------------------------------------------------------------------------
(* Bounds of the model.                                                    *)

MaxQueue == 2        \* signals the channel holds before the watcher is held back
MaxQuery == 1        \* characters typed into the search query
MaxOffset == 9       \* line-down is taken only below this offset
MaxPaged == 21       \* page-down is taken only up to this offset
MaxViewport == 2     \* inner height of the content area
MaxDocLines == 2     \* lines of a document of the builder specification
MaxFenceLines == 4   \* lines of a document of the fence specification
MaxHtmlLen == 4      \* characters of a text of the HTML specification
MaxTableLines == 3   \* lines of a document of the table specification

\* the rows a page key scrolls by
PageRows == 20

----------------------------------------------------------------------------
(* Characters and strings.                                                 *)

BoxTL == "BOX_TL"      \* U+250C
BoxTR == "BOX_TR"      \* U+2510
BoxBL == "BOX_BL"      \* U+2514
BoxBR == "BOX_BR"      \* U+2518
BoxH == "BOX_H"        \* U+2500
BoxV == "BOX_V"        \* U+2502
BoxDH == "BOX_DH"      \* U+2550
BarLeft == "BAR_LEFT"  \* U+258E
Checked == "CHECKED"   \* U+2611
Unchecked == "UNCHECKED" \* U+2610
Bullet == "BULLET"     \* U+2022
Backtick == "BACKTICK" \* U+0060, which a string of the module cannot hold
NL == "\n"

Min(a, b) == IF a < b THEN a ELSE b
Max(a, b) == IF a > b THEN a ELSE b

\* "c".repeat(n)
Repeat(c, n) == [i \in 1..n |-> c]

\* a.saturating_sub(b) on usize
saturating_sub(a, b) == IF a > b THEN a - b ELSE 0

UpperCase == <<"A", "B", "C", "D", "E", "F", "G", "H", "I", "J", "K", "L", "M",
               "N", "O", "P", "Q", "R", "S", "T", "U", "V", "W", "X", "Y", "Z">>
LowerCase == <<"a", "b", "c", "d", "e", "f", "g", "h", "i", "j", "k", "l", "m",
               "n", "o", "p", "q", "r", "s", "t", "u", "v", "w", "x", "y", "z">>
Digits == {"0", "1", "2", "3", "4", "5", "6", "7", "8", "9"}

\* char::to_lowercase on an ASCII character
char_to_lowercase(c) ==
    IF \E i \in 1..26 : UpperCase[i] = c
    THEN LowerCase[CHOOSE i \in 1..26 : UpperCase[i] = c]
    ELSE c

\* a variant of to_lowercase that keeps the case
to_verbatim(s) == s

\* str::to_lowercase
to_lowercase(s) == [i \in 1..Len(s) |-> char_to_lowercase(s[i])]

\* str::starts_with
starts_with(s, p) == Len(s) >= Len(p) /\ SubSeq(s, 1, Len(p)) = p

\* s[k..] with a 0-based character offset k
skip(s, k) == SubSeq(s, k + 1, Len(s))

\* str::find: 0-based offset of the first occurrence of p in s, -1 for None
find(s, p) ==
    LET hits == {k \in 0..(Len(s) - Len(p)) : SubSeq(s, k + 1, k + Len(p)) = p}
    IN IF hits = {} THEN -1 ELSE CHOOSE k \in hits : \A m \in hits : k <= m

\* str::contains
contains(s, p) == find(s, p) # -1

is_whitespace(c) == c \in {" ", "\t"}

\* str::trim_start
RECURSIVE trim_start(_)
trim_start(s) ==
    IF s # <<>> /\ is_whitespace(s[1]) THEN trim_start(Tail(s)) ELSE s

\* str::trim_end
RECURSIVE trim_end(_)
trim_end(s) ==
    IF s # <<>> /\ is_whitespace(s[Len(s)])
    THEN trim_end(SubSeq(s, 1, Len(s) - 1)) ELSE s

\* str::trim
trim(s) == trim_end(trim_start(s))

\* s.trim_start_matches(c)
RECURSIVE trim_start_matches(_, _)
trim_start_matches(s, c) ==
    IF s # <<>> /\ s[1] = c THEN trim_start_matches(Tail(s), c) ELSE s

\* str::lines: the pieces between line feeds, without a final empty piece
RECURSIVE str_lines(_)
str_lines(s) ==
    IF s = <<>> THEN <<>>
    ELSE LET k == find(s, <<NL>>)
         IN IF k = -1 THEN <<s>>
            ELSE <<SubSeq(s, 1, k)>> \o str_lines(skip(s, k + 1))

\* str::split(c), every piece kept
RECURSIVE str_split(_, _)
str_split(s, c) ==
    LET k == find(s, <<c>>)
    IN IF k = -1 THEN <<s>>
       ELSE <<SubSeq(s, 1, k)>> \o str_split(skip(s, k + 1), c)

\* str::replace: every non-overlapping occurrence of from, left to right
RECURSIVE replace(_, _, _)
replace(s, from, to) ==
    LET k == find(s, from)
    IN IF k = -1 THEN s
       ELSE SubSeq(s, 1, k) \o to \o replace(skip(s, k + Len(from)), from, to)

\* html_encode
html_encode(s) ==
    replace(replace(replace(s, <<"&">>, <<"&", "a", "m", "p", ";">>),
                    <<"<">>, <<"&", "l", "t", ";">>),
            <<">">>, <<"&", "g", "t", ";">>)

\* html_decode
html_decode(s) ==
    replace(replace(replace(replace(replace(s,
        <<"&", "a", "m", "p", ";">>, <<"&">>),
        <<"&", "l", "t", ";">>, <<"<">>),
        <<"&", "g", "t", ";">>, <<">">>),
        <<"&", "q", "u", "o", "t", ";">>, <<"\"">>),
        <<"&", "#", "3", "9", ";">>, <<"'">>)

\* concatenation of a sequence of strings
RECURSIVE concat(_)
concat(ss) == IF ss = <<>> THEN <<>> ELSE Head(ss) \o concat(Tail(ss))

----------------------------------------------------------------------------
(* Styled runs and lines.                                                  *)

\* Span::styled(content, style); Span::raw has the style "raw"
Span(text, style) == [content |-> text, style |-> style]

\* line.spans.iter().map(|s| s.content.as_ref()).collect::<String>()
flat_text(spans) == concat([i \in 1..Len(spans) |-> spans[i].content])

\* the flush of the plain accumulator that precedes every styled run
flush(spans, current) ==
    IF current # <<>> THEN Append(spans, Span(current, "raw")) ELSE spans

\* 1-based position of the first c in line at or after position i, Len+1 if none
next_char(line, i, c) ==
    LET hits == {k \in i..Len(line) : line[k] = c}
    IN IF hits = {} THEN Len(line) + 1
       ELSE CHOOSE k \in hits : \A m \in hits : k <= m

\* 1-based position of the first "cc" pair in line at or after position i,
\* Len+1 if none
next_pair(line, i, c) ==
    LET hits == {k \in i..(Len(line) - 1) : line[k] = c /\ line[k + 1] = c}
    IN IF hits = {} THEN Len(line) + 1
       ELSE CHOOSE k \in hits : \A m \in hits : k <= m

\* a variant of image_label without the default label
image_label_bare(alt) ==
    <<"[", "I", "m", "a", "g", "e", ":", " ">> \o alt \o <<"]">>

\* if alt.is_empty() { "image" } else { alt }, in format!("[Image: {}]", label)
image_label(alt) ==
    <<"[", "I", "m", "a", "g", "e", ":", " ">>
        \o (IF alt = <<>> THEN <<"i", "m", "a", "g", "e">> ELSE alt)
        \o <<"]">>

peek_is(line, i, c) == i <= Len(line) /\ line[i] = c

\* the loop of parse_inline_formatting from position i on
RECURSIVE inline_scan(_, _, _, _)
inline_scan(line, i, spans, current) ==
    IF i > Len(line) THEN flush(spans, current)
    ELSE LET c == line[i] IN
      CASE c = Backtick ->
             LET j == next_char(line, i + 1, Backtick)
             IN inline_scan(line, j + 1,
                    Append(flush(spans, current),
                           Span(SubSeq(line, i + 1, j - 1), "code")), <<>>)
        [] c = "*" /\ peek_is(line, i + 1, "*") ->
             LET j == next_pair(line, i + 2, "*")
             IN inline_scan(line, j + 2,
                    Append(flush(spans, current),
                           Span(SubSeq(line, i + 2, j - 1), "bold")), <<>>)
        [] c \in {"*", "_"} /\ ~(c = "*" /\ peek_is(line, i + 1, "*")) ->
             LET j == next_char(line, i + 1, c)
             IN inline_scan(line, j + 1,
                    Append(flush(spans, current),
                           Span(SubSeq(line, i + 1, j - 1), "italic")), <<>>)
        [] c = "~" /\ peek_is(line, i + 1, "~") ->
             LET j == next_pair(line, i + 2, "~")
             IN inline_scan(line, j + 2,
                    Append(flush(spans, current),
                           Span(SubSeq(line, i + 2, j - 1), "strike")), <<>>)
        [] c = "!" /\ peek_is(line, i + 1, "[") ->
             LET j == next_char(line, i + 2, "]")
                 alt == SubSeq(line, i + 2, j - 1)
                 found_close == j <= Len(line)
             IN IF found_close /\ peek_is(line, j + 1, "(")
                THEN LET e == next_char(line, j + 2, ")")
                     IN inline_scan(line, e + 1,
                            Append(flush(spans, current),
                                   Span(image_label(alt), "image")), <<>>)
                ELSE inline_scan(line, j + 1, spans,
                         current \o <<"!", "[">> \o alt
                                 \o (IF found_close THEN <<"]">> ELSE <<>>))
        [] c = "[" ->
             LET j == next_char(line, i + 1, "]")
                 text == SubSeq(line, i + 1, j - 1)
                 found_close == j <= Len(line)
             IN IF found_close /\ peek_is(line, j + 1, "(")
                THEN LET e == next_char(line, j + 2, ")")
                     IN inline_scan(line, e + 1,
                            Append(flush(spans, current),
                                   Span(text, "link")), <<>>)
                ELSE inline_scan(line, j + 1, spans,
                         current \o <<"[">> \o text
                                 \o (IF found_close THEN <<"]">> ELSE <<>>))
        [] OTHER -> inline_scan(line, i + 1, spans, Append(current, c))

\* parse_inline_formatting: the spans of the line (none for an empty line)
parse_inline_formatting(line) == inline_scan(line, 1, <<>>, <<>>)

----------------------------------------------------------------------------
(* Block classifier: markdown_to_lines_with_images.                        *)

\* ParsedLine::Text, ParsedLine::ImageRef, ParsedLine::MermaidRef
ParsedText(spans) == [kind |-> "Text", spans |-> spans]
ParsedImageRef(alt, url) == [kind |-> "ImageRef", alt |-> alt, url |-> url]
ParsedMermaidRef(source) == [kind |-> "MermaidRef", source |-> source]

\* Line::from(Span::styled(text, style))
StyledLine(text, style) == ParsedText(<<Span(text, style)>>)

\* Line::from("")
BlankLine == ParsedText(<<>>)

Fence == <<Backtick, Backtick, Backtick>>

\* the fixed footer row of a fenced block and of the diagram fallback
BoxFooter == <<BoxBL>> \o Repeat(BoxH, 41) \o <<BoxBR>>

\* the header row of a fenced block that is not a diagram
code_header(code_lang) ==
    IF code_lang = <<>>
    THEN <<BoxTL, BoxH, " ", "c", "o", "d", "e", " ">> \o Repeat(BoxH, 34)
             \o <<BoxTR>>
    ELSE <<BoxTL, BoxH, " ">> \o code_lang \o <<" ">>
             \o Repeat(BoxH, saturating_sub(38, Len(code_lang)))

\* extract_image_alt_and_url: <<alt, url>>, or <<>> for None
extract_image_alt_and_url(line) ==
    LET trimmed == trim(line)
        start == find(trimmed, <<"!", "[">>)
    IN IF start = -1 THEN <<>>
       ELSE LET rest == skip(trimmed, start + 2)
                bracket_end == find(rest, <<"]", "(">>)
            IN IF bracket_end = -1 THEN <<>>
               ELSE LET after_bracket == skip(rest, bracket_end + 2)
                        paren_end == find(after_bracket, <<")">>)
                    IN IF paren_end = -1 THEN <<>>
                       ELSE <<SubSeq(rest, 1, bracket_end),
                              SubSeq(after_bracket, 1, paren_end)>>

\* try_parse_ordered_list: <<number prefix, text>>, or <<>> for None
try_parse_ordered_list(line) ==
    LET trimmed == trim_start(line)
        dot_pos == find(trimmed, <<".", " ">>)
    IN IF dot_pos = -1 THEN <<>>
       ELSE LET num_part == SubSeq(trimmed, 1, dot_pos)
            IN IF (\A i \in 1..Len(num_part) : num_part[i] \in Digits)
                   /\ num_part # <<>>
               THEN <<num_part \o <<".", " ">>, skip(trimmed, dot_pos + 2)>>
               ELSE <<>>

\* the spans of a table row that is not the separator row
RECURSIVE cell_spans(_, _)
cell_spans(cells, i) ==
    IF i > Len(cells) THEN <<>>
    ELSE (IF i > 1 THEN <<Span(<<" ", BoxV, " ">>, "DarkGray")>> ELSE <<>>)
             \o <<Span(cells[i], "White")>> \o cell_spans(cells, i + 1)

table_cells(line) ==
    LET pieces == str_split(line, "|")
        kept == SelectSeq(pieces, LAMBDA piece : piece # <<>>)
    IN [i \in 1..Len(kept) |-> trim(kept[i])]

\* the number of leading whitespace characters of the line
indent_of(line) == Len(line) - Len(trim_start(line))

\* the state the classifier carries from line to line
ClassifierInit ==
    [in_code_block |-> FALSE, in_table |-> FALSE, in_mermaid_block |-> FALSE,
     mermaid_source |-> <<>>, items |-> <<>>]

push(st, new_items) == [st EXCEPT !.items = @ \o new_items]

\* a line that starts with three backticks
classify_fence(st, line) ==
    IF st.in_code_block
    THEN IF st.in_mermaid_block
         THEN [st EXCEPT !.in_mermaid_block = FALSE, !.in_code_block = FALSE,
                         !.items = Append(@, ParsedMermaidRef(st.mermaid_source)),
                         !.mermaid_source = <<>>]
         ELSE [st EXCEPT !.in_code_block = FALSE,
                         !.items = @ \o <<StyledLine(BoxFooter, "DarkGray"),
                                          BlankLine>>]
    ELSE LET code_lang == trim(trim_start_matches(line, Backtick))
         IN IF code_lang = <<"m", "e", "r", "m", "a", "i", "d">>
            THEN [st EXCEPT !.in_code_block = TRUE, !.in_mermaid_block = TRUE,
                            !.mermaid_source = <<>>]
            ELSE [st EXCEPT !.in_code_block = TRUE,
                            !.items = Append(@, StyledLine(code_header(code_lang),
                                                           "DarkGray"))]

\* a line inside a fenced block
classify_code(st, line) ==
    IF st.in_mermaid_block
    THEN [st EXCEPT !.mermaid_source =
              (IF @ # <<>> THEN Append(@, NL) ELSE @) \o line]
    ELSE push(st, <<StyledLine(<<BoxV, " ">> \o line, "Green")>>)

\* a line outside the fenced blocks that is a table row
classify_table(st, line) ==
    IF contains(line, <<"-", "-", "-">>) /\ ~st.in_table
    THEN [push(st, <<StyledLine(line, "DarkGray")>>) EXCEPT !.in_table = TRUE]
    ELSE [push(st, <<ParsedText(cell_spans(table_cells(line), 1))>>)
              EXCEPT !.in_table = TRUE]

\* a line outside the fenced blocks that is neither heading, rule nor table row
classify_rest(st, line) ==
    LET t == trim_start(line)
        ordered == try_parse_ordered_list(line)
        image == extract_image_alt_and_url(line)
    IN
    IF starts_with(line, <<">", " ">>)
    THEN push(st, <<ParsedText(<<Span(<<BarLeft, " ">>, "DarkGray"),
                                 Span(skip(line, 2), "GrayItalic")>>)>>)
    ELSE IF starts_with(t, <<"-", " ", "[", "x", "]", " ">>)
    THEN push(st, <<ParsedText(<<Span(Repeat(" ", indent_of(line)), "raw"),
                                 Span(<<Checked, " ">>, "Green"),
                                 Span(skip(t, 6), "DarkGray")>>)>>)
    ELSE IF starts_with(t, <<"-", " ", "[", " ", "]", " ">>)
    THEN push(st, <<ParsedText(<<Span(Repeat(" ", indent_of(line)), "raw"),
                                 Span(<<Unchecked, " ">>, "Yellow"),
                                 Span(skip(t, 6), "default")>>)>>)
    ELSE IF starts_with(t, <<"-", " ">>) \/ starts_with(t, <<"*", " ">>)
    THEN push(st, <<ParsedText(<<Span(Repeat(" ", indent_of(line)), "raw"),
                                 Span(<<Bullet, " ">>, "Cyan"),
                                 Span(skip(t, 2), "default")>>)>>)
    ELSE IF ordered # <<>>
    THEN push(st, <<ParsedText(<<Span(Repeat(" ", indent_of(line)), "raw"),
                                 Span(ordered[1], "Cyan"),
                                 Span(ordered[2], "default")>>)>>)
    ELSE IF starts_with(t, <<"!", "[">>) /\ image # <<>>
    THEN push(st, <<ParsedImageRef(image[1], image[2])>>)
    ELSE push(st, <<ParsedText(parse_inline_formatting(line))>>)

\* the body of the loop over content.lines()
classify_line(st, line) ==
    IF starts_with(line, Fence) THEN classify_fence(st, line)
    ELSE IF st.in_code_block THEN classify_code(st, line)
    ELSE IF starts_with(line, <<"#", " ">>)
    THEN push(st, <<BlankLine,
                    StyledLine(skip(line, 2), "CyanBoldUnderlined"),
                    StyledLine(Repeat(BoxDH, Min(saturating_sub(Len(line), 2), 60)),
                               "Cyan"),
                    BlankLine>>)
    ELSE IF starts_with(line, <<"#", "#", " ">>)
    THEN push(st, <<BlankLine,
                    StyledLine(skip(line, 3), "BlueBold"),
                    StyledLine(Repeat(BoxH, Min(saturating_sub(Len(line), 3), 50)),
                               "Blue"),
                    BlankLine>>)
    ELSE IF starts_with(line, <<"#", "#", "#", " ">>)
    THEN push(st, <<BlankLine, StyledLine(skip(line, 4), "YellowBold"),
                    BlankLine>>)
    ELSE IF starts_with(line, <<"#", "#", "#", "#", " ">>)
    THEN push(st, <<StyledLine(skip(line, 5), "MagentaBold")>>)
    ELSE IF starts_with(line, <<"-", "-", "-">>)
            \/ starts_with(line, <<"*", "*", "*">>)
            \/ starts_with(line, <<"_", "_", "_">>)
    THEN push(st, <<StyledLine(Repeat(BoxH, 60), "DarkGray")>>)
    ELSE IF contains(line, <<"|">>) /\ starts_with(trim(line), <<"|">>)
    THEN classify_table(st, line)
    ELSE classify_rest([st EXCEPT !.in_table = FALSE], line)

RECURSIVE classify_from(_, _, _)
classify_from(st, lines, i) ==
    IF i > Len(lines) THEN st
    ELSE classify_from(classify_line(st, lines[i]), lines, i + 1)

\* markdown_to_lines_with_images; the document is the sequence content.lines()
markdown_to_lines_with_images(lines) == classify_from(ClassifierInit, lines, 1).items

----------------------------------------------------------------------------
(* Heading list: extract_toc.  The parser is the comrak library; the model *)
(* keeps what the documents here exercise: ATX headings outside fenced     *)
(* blocks, with the heading's text content.                                *)

TocEntry(level, text) == [level |-> level, text |-> text]

\* the number of leading '#' of the line
RECURSIVE hashes(_)
hashes(s) == IF s # <<>> /\ s[1] = "#" THEN 1 + hashes(Tail(s)) ELSE 0

\* the heading a line makes: <<TocEntry>>, or <<>> when the line is no heading
atx_heading(line) ==
    LET t == trim_start(line)
        level == hashes(t)
        rest == skip(t, level)
    IN IF indent_of(line) <= 3 /\ level >= 1 /\ level <= 6
          /\ (rest = <<>> \/ is_whitespace(rest[1]))
       THEN <<TocEntry(level, trim(rest))>>
       ELSE <<>>

RECURSIVE toc_from(_, _, _)
toc_from(lines, i, in_fence) ==
    IF i > Len(lines) THEN <<>>
    ELSE IF starts_with(trim_start(lines[i]), Fence)
    THEN toc_from(lines, i + 1, ~in_fence)
    ELSE IF in_fence THEN toc_from(lines, i + 1, in_fence)
    ELSE atx_heading(lines[i]) \o toc_from(lines, i + 1, in_fence)

extract_toc(lines) == toc_from(lines, 1, FALSE)

----------------------------------------------------------------------------
(* Element builder: build_content_elements.                                *)

\* what the external resolvers answer for one image or diagram reference:
\* render1 and render2 are the two attempts of the diagram renderer ("ok",
\* "err" or "panic"), image is the decoded image of load_image or
\* rasterize_svg, its pixel size <<width, height>> (<<>> for Err)
Outcome(render1, render2, image) ==
    [render1 |-> render1, render2 |-> render2, image |-> image]

\* ContentElement::TextLine, ::Image, ::ImagePlaceholder
TextLine(spans) == [kind |-> "TextLine", spans |-> spans]
Image(alt, height) == [kind |-> "Image", alt |-> alt, height |-> height]
ImagePlaceholder(spans) == [kind |-> "ImagePlaceholder", spans |-> spans]

\* ContentElement::row_height
row_height(element) ==
    CASE element.kind = "TextLine" -> 1
      [] element.kind = "Image" -> element.height
      [] element.kind = "ImagePlaceholder" -> 1

\* x.clamp(lo, hi)
clamp(x, lo, hi) == IF x < lo THEN lo ELSE IF x > hi THEN hi ELSE x

\* a variant of image_rows that rounds down and does not clamp
image_rows_floor(img_w, img_h) == (30 * img_h) \div img_w

\* a variant of image_rows that does not clamp
image_rows_unclamped(img_w, img_h) ==
    Min((30 * img_h + img_w - 1) \div img_w, 65535)

\* ((60 as f64) * (img_h as f64 / img_w as f64) / 2.0).ceil() as u16, clamped
\* to 2..20; the cast saturates at u16::MAX
image_rows(img_w, img_h) ==
    LET target_rows == Min((30 * img_h + img_w - 1) \div img_w, 65535)
    IN clamp(target_rows, 2, 20)

\* a variant of render_mermaid_to_svg without the second attempt
render_first_attempt(outcome) == outcome.render1 = "ok"

\* render_mermaid_to_svg: TRUE for Ok(svg); a panic of the renderer is caught
render_mermaid_to_svg(outcome) ==
    IF outcome.render1 = "ok" THEN TRUE ELSE outcome.render2 = "ok"

\* a variant of push_mermaid_fallback_code that adds nothing
no_fallback(elements, source) == elements

\* push_mermaid_fallback_code
push_mermaid_fallback_code(elements, source) ==
    LET src == str_lines(source)
    IN elements
         \o <<TextLine(<<Span(<<BoxTL, BoxH, " ", "m", "e", "r", "m", "a", "i",
                                "d", " ">> \o Repeat(BoxH, 33) \o <<BoxTR>>,
                              "DarkGray")>>)>>
         \o [i \in 1..Len(src) |->
                TextLine(<<Span(<<BoxV, " ">> \o src[i], "Green")>>)]
         \o <<TextLine(<<Span(BoxFooter, "DarkGray")>>), TextLine(<<>>)>>

\* the elements one parsed line adds, given the resolvers' answer for it
build_item(elements, item, has_picker, outcome) ==
    CASE item.kind = "Text" -> Append(elements, TextLine(item.spans))
      [] item.kind = "MermaidRef" ->
           IF render_mermaid_to_svg(outcome)
           THEN IF outcome.image # <<>>
                THEN IF has_picker
                     THEN Append(elements,
                              Image(<<"m", "e", "r", "m", "a", "i", "d", " ",
                                      "d", "i", "a", "g", "r", "a", "m">>,
                                    image_rows(outcome.image[1], outcome.image[2])))
                     ELSE push_mermaid_fallback_code(elements, item.source)
                ELSE push_mermaid_fallback_code(elements, item.source)
           ELSE push_mermaid_fallback_code(elements, item.source)
      [] item.kind = "ImageRef" ->
           IF has_picker
           THEN IF outcome.image # <<>>
                THEN Append(elements,
                         Image(item.alt,
                               image_rows(outcome.image[1], outcome.image[2])))
                ELSE Append(elements,
                         ImagePlaceholder(<<Span(image_label(item.alt),
                                                 "MagentaItalic")>>))
           ELSE Append(elements,
                    ImagePlaceholder(<<Span(image_label(item.alt),
                                            "MagentaItalic")>>))

\* the number of image and diagram references among the parsed lines
RECURSIVE ref_count(_)
ref_count(items) ==
    IF items = <<>> THEN 0
    ELSE (IF Head(items).kind = "Text" THEN 0 ELSE 1) + ref_count(Tail(items))

\* the loop of build_content_elements; outcomes[n] answers the n-th reference
RECURSIVE build_from(_, _, _, _, _, _)
build_from(items, i, refno, has_picker, outcomes, elements) ==
    IF i > Len(items) THEN elements
    ELSE IF items[i].kind = "Text"
    THEN build_from(items, i + 1, refno, has_picker, outcomes,
                    build_item(elements, items[i], has_picker, <<>>))
    ELSE build_from(items, i + 1, refno + 1, has_picker, outcomes,
                    build_item(elements, items[i], has_picker, outcomes[refno]))

build_content_elements(lines, has_picker, outcomes) ==
    build_from(markdown_to_lines_with_images(lines), 1, 1, has_picker, outcomes,
               <<>>)

\* the resolver answers a build of the document may meet, each reference
\* answered from outs
Answers(lines, outs) ==
    [1..ref_count(markdown_to_lines_with_images(lines)) -> outs]

----------------------------------------------------------------------------
(* Row index, search and heading lookup.                                   *)

\* total_content_rows
RECURSIVE total_content_rows(_)
total_content_rows(elements) ==
    IF elements = <<>> THEN 0
    ELSE row_height(Head(elements)) + total_content_rows(Tail(elements))

\* the text of a TextLine or ImagePlaceholder element
element_text(element) == flat_text(element.spans)

\* the loop of update_search_matches over app.rendered
RECURSIVE search_rows(_, _, _, _)
search_rows(elements, i, row_offset, query_lower) ==
    IF i > Len(elements) THEN <<>>
    ELSE IF elements[i].kind = "Image"
    THEN search_rows(elements, i + 1, row_offset + elements[i].height,
                     query_lower)
    ELSE (IF contains(to_lowercase(element_text(elements[i])), query_lower)
          THEN <<row_offset>> ELSE <<>>)
             \o search_rows(elements, i + 1, row_offset + 1, query_lower)

\* a variant of update_search_matches that does not scroll to the first match
update_search_matches_in_place(app) ==
    LET cleared == [app EXCEPT !.search_matches = <<>>, !.current_match_idx = 0]
    IN IF app.search_query = <<>> THEN cleared
       ELSE [cleared EXCEPT !.search_matches =
                 search_rows(app.rendered, 1, 0, to_lowercase(app.search_query))]

\* a variant of update_search_matches that does not reset current_match_idx
update_search_matches_keep_index(app) ==
    LET cleared == [app EXCEPT !.search_matches = <<>>]
    IN IF app.search_query = <<>> THEN cleared
       ELSE LET found == search_rows(app.rendered, 1, 0,
                                     to_lowercase(app.search_query))
            IN [cleared EXCEPT !.search_matches = found,
                               !.scroll_offset =
                                   IF found # <<>> THEN found[1] ELSE @]

\* a variant of update_search_matches that keeps the matches it had
update_search_matches_appending(app) ==
    IF app.search_query = <<>> THEN app
    ELSE LET found == search_rows(app.rendered, 1, 0,
                                  to_lowercase(app.search_query))
         IN [app EXCEPT !.search_matches = @ \o found,
                        !.current_match_idx = 0,
                        !.scroll_offset = IF found # <<>> THEN found[1] ELSE @]

\* a variant of update_search_matches that goes to the top on an empty query
update_search_matches_rewinding(app) ==
    LET cleared == [app EXCEPT !.search_matches = <<>>, !.current_match_idx = 0]
    IN IF app.search_query = <<>> THEN [cleared EXCEPT !.scroll_offset = 0]
       ELSE LET found == search_rows(app.rendered, 1, 0,
                                     to_lowercase(app.search_query))
            IN [cleared EXCEPT !.search_matches = found,
                               !.scroll_offset =
                                   IF found # <<>> THEN found[1] ELSE @]

\* update_search_matches(app) on the fields it reads and writes
update_search_matches(app) ==
    LET cleared == [app EXCEPT !.search_matches = <<>>, !.current_match_idx = 0]
    IN IF app.search_query = <<>> THEN cleared
       ELSE LET found == search_rows(app.rendered, 1, 0,
                                     to_lowercase(app.search_query))
            IN [cleared EXCEPT !.search_matches = found,
                               !.scroll_offset =
                                   IF found # <<>> THEN found[1] ELSE @]

\* the loop of find_heading_row; -1 for None
RECURSIVE heading_row_from(_, _, _, _)
heading_row_from(elements, i, row_offset, search_text) ==
    IF i > Len(elements) THEN -1
    ELSE IF elements[i].kind = "Image"
    THEN heading_row_from(elements, i + 1, row_offset + elements[i].height,
                          search_text)
    ELSE IF contains(element_text(elements[i]), search_text) THEN row_offset
    ELSE heading_row_from(elements, i + 1, row_offset + 1, search_text)

\* a variant of find_heading_row that takes the entry before the selected one
find_heading_row_previous(elements, toc, toc_index) ==
    IF toc_index >= Len(toc) THEN -1
    ELSE heading_row_from(elements, 1, 0, toc[Max(toc_index, 1)].text)

\* find_heading_row; toc_index is 0-based, -1 for None
find_heading_row(elements, toc, toc_index) ==
    IF toc_index >= Len(toc) THEN -1
    ELSE heading_row_from(elements, 1, 0, toc[toc_index + 1].text)

\* (current_match_idx + 1) % search_matches.len()
next_match_idx(idx, len) == (idx + 1) % len

\* a variant of prev_match_idx that stops at the first match
prev_match_idx_saturating(idx, len) == saturating_sub(idx, 1)

\* if current_match_idx == 0 { len - 1 } else { current_match_idx - 1 }
prev_match_idx(idx, len) == IF idx = 0 THEN len - 1 ELSE idx - 1

----------------------------------------------------------------------------
(* Painter: the scroll window of ui and render_content_elements.           *)

\* a variant of clamped_scroll that clamps to the last row
scroll_to_last_row(elements, offset, height) ==
    Min(offset, saturating_sub(total_content_rows(elements), 1))

\* a variant of clamped_scroll that takes the stored offset as it is
unclamped_scroll(elements, offset, height) == offset

\* app.scroll_offset.min(total_rows.saturating_sub(content_height))
clamped_scroll(elements, offset, height) ==
    Min(offset, saturating_sub(total_content_rows(elements), height))

\* a variant of highlight that does not tell the current match from the rest
highlight_any(r, matches, current_match) ==
    IF \E k \in 1..Len(matches) : matches[k] = r THEN "match" ELSE "none"

\* the highlight of a one-row element at absolute row r
highlight(r, matches, current_match) ==
    LET is_match == \E k \in 1..Len(matches) : matches[k] = r
        is_current == is_match /\ current_match < Len(matches)
                               /\ matches[current_match + 1] = r
    IN IF is_current THEN "current" ELSE IF is_match THEN "match" ELSE "none"

\* one widget drawn: the element index, its absolute row, the screen row it
\* is drawn at, the rows drawn, and the highlight
Drawn(i, row, y, rows, hl) ==
    [element |-> i, row |-> row, y |-> y, rows |-> rows, highlight |-> hl]

\* a variant of render_from that draws the rows of a partly scrolled Image
\* that are left below the offset
RECURSIVE render_from_cropped(_, _, _, _, _, _, _, _)
render_from_cropped(elements, i, rows_skipped, y_offset, absolute_row, scroll, available_height, hl) ==
    IF i > Len(elements) \/ y_offset >= available_height THEN <<>>
    ELSE LET element == elements[i]
             elem_height == row_height(element)
             skip_within == IF rows_skipped < scroll
                            THEN scroll - rows_skipped ELSE 0
             skipped == rows_skipped + elem_height
             next_row == absolute_row + elem_height
         IN IF rows_skipped + elem_height <= scroll
            THEN render_from_cropped(elements, i + 1, skipped, y_offset,
                                     next_row, scroll, available_height, hl)
            ELSE IF element.kind = "Image"
            THEN LET render_height ==
                         Min(element.height - skip_within,
                             available_height - y_offset)
                 IN <<Drawn(i, absolute_row + skip_within, y_offset,
                            render_height, "none")>>
                      \o render_from_cropped(elements, i + 1, skipped,
                                             y_offset + render_height, next_row,
                                             scroll, available_height, hl)
            ELSE IF skip_within = 0
                 THEN <<Drawn(i, absolute_row, y_offset, 1,
                              highlight(absolute_row, hl.matches, hl.current))>>
                        \o render_from_cropped(elements, i + 1, skipped,
                                               y_offset + 1, next_row, scroll,
                                               available_height, hl)
                 ELSE render_from_cropped(elements, i + 1, skipped, y_offset,
                                          next_row, scroll, available_height,
                                          hl)

\* the loop of render_content_elements: the widgets drawn from element i on
RECURSIVE render_from(_, _, _, _, _, _, _, _)
render_from(elements, i, rows_skipped, y_offset, absolute_row, scroll, available_height, hl) ==
    IF i > Len(elements) \/ y_offset >= available_height THEN <<>>
    ELSE LET element == elements[i]
             elem_height == row_height(element)
             skip_within == IF rows_skipped < scroll
                            THEN scroll - rows_skipped ELSE 0
             skipped == rows_skipped + elem_height
             next_row == absolute_row + elem_height
         IN IF rows_skipped + elem_height <= scroll
            THEN render_from(elements, i + 1, skipped, y_offset, next_row,
                             scroll, available_height, hl)
            ELSE IF element.kind = "Image"
            THEN LET render_height ==
                         Min(element.height, available_height - y_offset)
                 IN IF skip_within > 0 \/ render_height = 0
                    THEN render_from(elements, i + 1, skipped, y_offset,
                                     next_row, scroll, available_height, hl)
                    ELSE <<Drawn(i, absolute_row, y_offset, render_height,
                                 "none")>>
                           \o render_from(elements, i + 1, skipped,
                                          y_offset + render_height, next_row,
                                          scroll, available_height, hl)
            ELSE IF skip_within = 0
                 THEN <<Drawn(i, absolute_row, y_offset, 1,
                              highlight(absolute_row, hl.matches, hl.current))>>
                        \o render_from(elements, i + 1, skipped, y_offset + 1,
                                       next_row, scroll, available_height, hl)
                 ELSE render_from(elements, i + 1, skipped, y_offset, next_row,
                                  scroll, available_height, hl)

\* render_content_elements
render_content_elements(elements, scroll, height, matches, current_match) ==
    render_from(elements, 1, 0, 0, 0, scroll, height,
                [matches |-> matches, current |-> current_match])

\* ui: the frame drawn for the application state
ui(elements, offset, height, matches, current_match) ==
    LET scroll == clamped_scroll(elements, offset, height)
    IN [scroll |-> scroll,
        total_rows |-> total_content_rows(elements),
        drawn |-> render_content_elements(elements, scroll, height, matches,
                                          current_match)]

----------------------------------------------------------------------------
(* Main loop of run, and the watcher thread of watch_file.                 *)

\* the documents the file holds in the main-loop specification
DocA == << <<"#", " ", "A", "b">>,
           <<"#", "#", "#", "#", " ", "b", "a">>,
           <<"!", "[", "x", "]", "(", "u", ")">> >>
DocB == << Fence \o <<"m", "e", "r", "m", "a", "i", "d">>,
           <<"a">>,
           Fence,
           <<"B">> >>
Docs == {DocA, DocB}

\* the resolver answers of the main-loop specification
LoopOutcomes ==
    {Outcome("ok", "ok", <<60, 1>>), Outcome("err", "ok", <<60, 5>>),
     Outcome("ok", "ok", <<>>), Outcome("panic", "err", <<60, 1>>)}

\* the resolver answers of the builder specification
BuildOutcomes ==
    LoopOutcomes \cup {Outcome("panic", "ok", <<1, 100>>),
                       Outcome("ok", "ok", <<100, 8>>)}

\* the lines the file grows by in the builder specification
BuildLines ==
    {<<"a">>, <<"!", "[", "x", "]", "(", "u", ")">>,
     <<"!", "[", "]", "(", "u", ")">>,
     Fence \o <<"m", "e", "r", "m", "a", "i", "d">>, Fence}

\* the resolver answers of the fence specification
FenceOutcomes ==
    {Outcome("ok", "ok", <<60, 1>>), Outcome("err", "panic", <<60, 1>>)}

\* the lines the file grows by in the fence specification
FenceLines ==
    {Fence \o <<"m", "e", "r", "m", "a", "i", "d">>, Fence \o <<"r">>, Fence,
     <<>>, <<"a">>}

\* the characters typed into the query
QueryKeys == {"a", "B"}

Key(code, ch) == [code |-> code, ch |-> ch]
NoKey == Key("none", "")

\* the frame before terminal.draw has drawn it
NoFrame == [scroll |-> 0, total_rows |-> 0, drawn |-> <<>>]

\* what the check for file changes of this iteration did
IterStart == [drained |-> 0, reads |-> 0, read_ok |-> FALSE, rebuilds |-> 0]

\* the fields of TuiApp that update_search_matches reads and writes
App == [rendered |-> rendered, search_query |-> search_query,
        search_matches |-> search_matches,
        current_match_idx |-> current_match_idx,
        scroll_offset |-> scroll_offset]

doc_vars == <<content, rendered, toc_entries>>
search_vars == <<search_query, search_matches, current_match_idx>>
toc_vars == <<toc_selected, focus_toc>>

\* run, up to the first iteration of the loop, on one of files
Started(files, outs) ==
    /\ \E lines \in files, p \in BOOLEAN :
         /\ content = lines
         /\ toc_entries = extract_toc(lines)
         /\ picker = p
         /\ \E outcomes \in Answers(lines, outs) :
              rendered = build_content_elements(lines, p, outcomes)
    /\ watcher_rx = 0
    /\ scroll_offset = 0
    /\ toc_selected = 0
    /\ focus_toc = FALSE
    /\ should_quit = FALSE
    /\ search_mode = FALSE
    /\ search_query = <<>>
    /\ search_matches = <<>>
    /\ current_match_idx = 0
    /\ content_height \in 1..MaxViewport
    /\ frame = NoFrame
    /\ pc = "draw"
    /\ key = NoKey
    /\ iter = IterStart
    /\ rebuild_query = <<>>

Init == Started(Docs, LoopOutcomes)

\* the watcher thread: the file changed and the debouncer's callback runs
\* tx.send(())
WatcherSend ==
    /\ pc # "done"
    /\ watcher_rx < MaxQueue
    /\ watcher_rx' = watcher_rx + 1
    /\ UNCHANGED <<doc_vars, picker, scroll_offset, toc_vars, should_quit,
                   search_mode, search_vars, content_height, frame, pc, key,
                   iter, rebuild_query>>

\* terminal.draw(|f| ui(f, &mut app))
Draw ==
    /\ pc = "draw"
    /\ frame' = ui(rendered, scroll_offset, content_height, search_matches,
                   current_match_idx)
    /\ pc' = "watch"
    /\ UNCHANGED <<watcher_rx, doc_vars, picker, scroll_offset, toc_vars,
                   should_quit, search_mode, search_vars, content_height,
                   key, iter, rebuild_query>>

\* a variant of drained without the while loop
drained_first(queued) == 1

\* a variant of Rebuilt that runs the search again and scrolls to the top
Rebuilt_and_searched(new_content, outcomes) ==
    /\ toc_entries' = extract_toc(new_content)
    /\ rendered' = build_content_elements(new_content, picker, outcomes)
    /\ content' = new_content
    /\ search_matches' =
           search_rows(rendered', 1, 0, to_lowercase(search_query))
    /\ current_match_idx' = 0
    /\ scroll_offset' = 0
    /\ UNCHANGED <<picker, toc_vars, should_quit, search_mode, search_query,
                   content_height>>

\* a variant of Rebuilt that takes the headings from the text read before
Rebuilt_stale_toc(new_content, outcomes) ==
    /\ toc_entries' = extract_toc(content)
    /\ rendered' = build_content_elements(new_content, picker, outcomes)
    /\ content' = new_content
    /\ UNCHANGED <<picker, scroll_offset, toc_vars, should_quit, search_mode,
                   search_vars, content_height>>

\* the signals the drain takes off the channel: the try_recv of the test and
\* the while loop after it empty the queue
drained(queued) == queued

\* the fields a successful re-read replaces, and the fields it leaves
Rebuilt(new_content, outcomes) ==
    /\ toc_entries' = extract_toc(new_content)
    /\ rendered' = build_content_elements(new_content, picker, outcomes)
    /\ content' = new_content
    /\ UNCHANGED <<picker, scroll_offset, toc_vars, should_quit, search_mode,
                   search_vars, content_height>>

\* the check for file changes: drain the channel, re-read the file (which
\* holds one of files by now, or cannot be read), rebuild with the resolvers
\* answering from outs; the history variable rebuild_query follows the
\* rebuilds if track is set
FileCheck(files, outs, track) ==
    /\ pc = "watch"
    /\ pc' = "poll"
    /\ key' = NoKey
    /\ frame' = NoFrame
    /\ IF watcher_rx = 0
       THEN /\ iter' = IterStart
            /\ UNCHANGED <<watcher_rx, doc_vars, rebuild_query, picker,
                           scroll_offset, toc_vars, should_quit, search_mode,
                           search_vars, content_height>>
       ELSE /\ watcher_rx' = watcher_rx - drained(watcher_rx)
            /\ \/ \E new_content \in files :
                    /\ \E outcomes \in Answers(new_content, outs) :
                         Rebuilt(new_content, outcomes)
                    /\ rebuild_query' =
                           IF track THEN search_query ELSE rebuild_query
                    /\ iter' = [drained |-> drained(watcher_rx), reads |-> 1,
                                read_ok |-> TRUE, rebuilds |-> 1]
               \/ /\ iter' = [drained |-> drained(watcher_rx), reads |-> 1,
                              read_ok |-> FALSE, rebuilds |-> 0]
                  /\ UNCHANGED <<doc_vars, rebuild_query, picker,
                                 scroll_offset, toc_vars, should_quit,
                                 search_mode, search_vars, content_height>>

\* the check for file changes of the main loop
CheckFileChanges == FileCheck(Docs, LoopOutcomes, FALSE)

\* the same step, recorded in the history variable
CheckFileChangesTracked == FileCheck(Docs, LoopOutcomes, TRUE)

\* the same step after the file grew by one line
CheckFileAppended ==
    FileCheck({content} \cup
                  {Append(content, l) : l \in
                       IF Len(content) < MaxDocLines THEN BuildLines ELSE {}},
              BuildOutcomes, FALSE)

\* event::read: the key of this iteration is taken
Handled(k) ==
    /\ pc = "poll"
    /\ key' = k
    /\ iter' = IterStart
    /\ UNCHANGED <<watcher_rx, doc_vars, picker, content_height, frame>>

\* the end of an iteration: if app.should_quit { break; }
LoopEnd == pc' = IF should_quit' THEN "done" ELSE "draw"

\* event::poll times out, or the event is not a key
NoEvent ==
    /\ Handled(NoKey)
    /\ UNCHANGED <<scroll_offset, toc_vars, should_quit, search_mode,
                   search_vars, rebuild_query>>
    /\ LoopEnd

\* a variant of SearchEsc that keeps the match list
SearchEsc_keeping_matches ==
    /\ search_mode
    /\ search_mode' = FALSE
    /\ search_query' = <<>>
    /\ current_match_idx' = 0
    /\ rebuild_query' = <<>>
    /\ Handled(Key("Esc", ""))
    /\ UNCHANGED <<search_matches, scroll_offset, toc_vars, should_quit>>
    /\ LoopEnd

\* search mode, Esc
SearchEsc ==
    /\ search_mode
    /\ search_mode' = FALSE
    /\ search_query' = <<>>
    /\ search_matches' = <<>>
    /\ current_match_idx' = 0
    /\ rebuild_query' = <<>>
    /\ Handled(Key("Esc", ""))
    /\ UNCHANGED <<scroll_offset, toc_vars, should_quit>>
    /\ LoopEnd

\* search mode, Enter: the next match
SearchEnter ==
    /\ search_mode
    /\ IF search_matches # <<>>
       THEN /\ current_match_idx' =
                   next_match_idx(current_match_idx, Len(search_matches))
            /\ scroll_offset' = search_matches[current_match_idx' + 1]
       ELSE UNCHANGED <<current_match_idx, scroll_offset>>
    /\ Handled(Key("Enter", ""))
    /\ UNCHANGED <<search_query, search_matches, toc_vars, should_quit,
                   search_mode, rebuild_query>>
    /\ LoopEnd

\* the search state after the query became q
Researched(q) ==
    LET app == update_search_matches([App EXCEPT !.search_query = q])
    IN /\ search_query' = app.search_query
       /\ search_matches' = app.search_matches
       /\ current_match_idx' = app.current_match_idx
       /\ scroll_offset' = app.scroll_offset

\* search mode, Backspace
SearchBackspace ==
    /\ search_mode
    /\ Researched(SubSeq(search_query, 1, Len(search_query) - 1))
    /\ Handled(Key("Backspace", ""))
    /\ UNCHANGED <<toc_vars, should_quit, search_mode, rebuild_query>>
    /\ LoopEnd

\* search mode, a character
SearchChar ==
    /\ search_mode
    /\ Len(search_query) < MaxQuery
    /\ \E c \in QueryKeys :
         /\ Researched(Append(search_query, c))
         /\ Handled(Key("Char", c))
    /\ UNCHANGED <<toc_vars, should_quit, search_mode, rebuild_query>>
    /\ LoopEnd

\* search mode, any other key
SearchOther ==
    /\ search_mode
    /\ Handled(NoKey)
    /\ UNCHANGED <<scroll_offset, toc_vars, should_quit, search_mode,
                   search_vars, rebuild_query>>
    /\ LoopEnd

\* normal mode: q, Esc or Ctrl-C
Quit ==
    /\ ~search_mode
    /\ should_quit' = TRUE
    /\ Handled(NoKey)
    /\ UNCHANGED <<scroll_offset, toc_vars, search_mode, search_vars,
                   rebuild_query>>
    /\ LoopEnd

\* normal mode: / or Ctrl-F
OpenSearch ==
    /\ ~search_mode
    /\ search_mode' = TRUE
    /\ Handled(Key("Char", "/"))
    /\ UNCHANGED <<scroll_offset, toc_vars, should_quit, search_vars,
                   rebuild_query>>
    /\ LoopEnd

\* normal mode: n
NextMatch ==
    /\ ~search_mode
    /\ IF search_matches # <<>>
       THEN /\ current_match_idx' =
                   next_match_idx(current_match_idx, Len(search_matches))
            /\ scroll_offset' = search_matches[current_match_idx' + 1]
       ELSE UNCHANGED <<current_match_idx, scroll_offset>>
    /\ Handled(Key("Char", "n"))
    /\ UNCHANGED <<search_query, search_matches, toc_vars, should_quit,
                   search_mode, rebuild_query>>
    /\ LoopEnd

\* a variant of PrevMatch that goes to the top when there is no match
PrevMatch_to_top ==
    /\ ~search_mode
    /\ IF search_matches # <<>>
       THEN /\ current_match_idx' =
                   prev_match_idx(current_match_idx, Len(search_matches))
            /\ scroll_offset' = search_matches[current_match_idx' + 1]
       ELSE scroll_offset' = 0 /\ UNCHANGED current_match_idx
    /\ Handled(Key("Char", "N"))
    /\ UNCHANGED <<search_query, search_matches, toc_vars, should_quit,
                   search_mode, rebuild_query>>
    /\ LoopEnd

\* normal mode: N
PrevMatch ==
    /\ ~search_mode
    /\ IF search_matches # <<>>
       THEN /\ current_match_idx' =
                   prev_match_idx(current_match_idx, Len(search_matches))
            /\ scroll_offset' = search_matches[current_match_idx' + 1]
       ELSE UNCHANGED <<current_match_idx, scroll_offset>>
    /\ Handled(Key("Char", "N"))
    /\ UNCHANGED <<search_query, search_matches, toc_vars, should_quit,
                   search_mode, rebuild_query>>
    /\ LoopEnd

\* a variant of Down that steps past the last heading
Down_past_last ==
    /\ ~search_mode
    /\ IF focus_toc
       THEN /\ toc_selected' =
                   IF toc_selected < Len(toc_entries)
                   THEN toc_selected + 1 ELSE toc_selected
            /\ UNCHANGED scroll_offset
       ELSE /\ scroll_offset < MaxOffset
            /\ scroll_offset' = scroll_offset + 1
            /\ UNCHANGED toc_selected
    /\ Handled(NoKey)
    /\ UNCHANGED <<focus_toc, should_quit, search_mode, search_vars,
                   rebuild_query>>
    /\ LoopEnd

\* normal mode: Down or j
Down ==
    /\ ~search_mode
    /\ IF focus_toc
       THEN /\ toc_selected' =
                   IF toc_selected < saturating_sub(Len(toc_entries), 1)
                   THEN toc_selected + 1 ELSE toc_selected
            /\ UNCHANGED scroll_offset
       ELSE /\ scroll_offset < MaxOffset
            /\ scroll_offset' = scroll_offset + 1
            /\ UNCHANGED toc_selected
    /\ Handled(NoKey)
    /\ UNCHANGED <<focus_toc, should_quit, search_mode, search_vars,
                   rebuild_query>>
    /\ LoopEnd

\* normal mode: Up or k
Up ==
    /\ ~search_mode
    /\ IF focus_toc
       THEN /\ toc_selected' = saturating_sub(toc_selected, 1)
            /\ UNCHANGED scroll_offset
       ELSE /\ scroll_offset' = saturating_sub(scroll_offset, 1)
            /\ UNCHANGED toc_selected
    /\ Handled(NoKey)
    /\ UNCHANGED <<focus_toc, should_quit, search_mode, search_vars,
                   rebuild_query>>
    /\ LoopEnd

\* normal mode: PageDown or space
PageDown ==
    /\ ~search_mode
    /\ scroll_offset + PageRows <= MaxPaged
    /\ scroll_offset' = scroll_offset + PageRows
    /\ Handled(NoKey)
    /\ UNCHANGED <<toc_vars, should_quit, search_mode, search_vars,
                   rebuild_query>>
    /\ LoopEnd

\* normal mode: PageUp
PageUp ==
    /\ ~search_mode
    /\ scroll_offset' = saturating_sub(scroll_offset, PageRows)
    /\ Handled(NoKey)
    /\ UNCHANGED <<toc_vars, should_quit, search_mode, search_vars,
                   rebuild_query>>
    /\ LoopEnd

\* normal mode: Home or g
Home ==
    /\ ~search_mode
    /\ scroll_offset' = 0
    /\ Handled(NoKey)
    /\ UNCHANGED <<toc_vars, should_quit, search_mode, search_vars,
                   rebuild_query>>
    /\ LoopEnd

\* normal mode: End or G
End ==
    /\ ~search_mode
    /\ scroll_offset' = saturating_sub(total_content_rows(rendered), 1)
    /\ Handled(Key("End", ""))
    /\ UNCHANGED <<toc_vars, should_quit, search_mode, search_vars,
                   rebuild_query>>
    /\ LoopEnd

\* normal mode: Tab
Tab ==
    /\ ~search_mode
    /\ focus_toc' = ~focus_toc
    /\ Handled(NoKey)
    /\ UNCHANGED <<scroll_offset, toc_selected, should_quit, search_mode,
                   search_vars, rebuild_query>>
    /\ LoopEnd

\* normal mode: Enter, the jump to the selected heading
JumpToHeading ==
    /\ ~search_mode
    /\ LET offset == find_heading_row(rendered, toc_entries, toc_selected)
       IN IF focus_toc /\ offset # -1
          THEN /\ scroll_offset' = offset
               /\ focus_toc' = FALSE
          ELSE UNCHANGED <<scroll_offset, focus_toc>>
    /\ Handled(Key("Enter", ""))
    /\ UNCHANGED <<toc_selected, should_quit, search_mode, search_vars,
                   rebuild_query>>
    /\ LoopEnd

\* normal mode: any other key
NormalOther ==
    /\ ~search_mode
    /\ Handled(NoKey)
    /\ UNCHANGED <<scroll_offset, toc_vars, should_quit, search_mode,
                   search_vars, rebuild_query>>
    /\ LoopEnd



\* the iterations of the main loop without the page keys
Next ==
    \/ WatcherSend
    \/ Draw
    \/ CheckFileChanges
    \/ NoEvent
    \/ SearchEsc
    \/ SearchEnter
    \/ SearchBackspace
    \/ SearchChar
    \/ SearchOther
    \/ Quit
    \/ OpenSearch
    \/ NextMatch
    \/ PrevMatch
    \/ Down
    \/ Up
    \/ Home
    \/ End
    \/ Tab
    \/ JumpToHeading
    \/ NormalOther

Spec == Init /\ [][Next]_vars

\* the iterations of the main loop in normal mode, with the page keys
NextScroll ==
    \/ WatcherSend
    \/ Draw
    \/ CheckFileChanges
    \/ NoEvent
    \/ Quit
    \/ Down
    \/ Up
    \/ PageDown
    \/ PageUp
    \/ Home
    \/ End
    \/ Tab
    \/ JumpToHeading

SpecScroll == Init /\ [][NextScroll]_vars

\* the iterations of the main loop with the search keys alone, the rebuilds
\* recorded in the history variable
NextReissue ==
    \/ WatcherSend
    \/ Draw
    \/ CheckFileChangesTracked
    \/ NoEvent
    \/ SearchEsc
    \/ SearchEnter
    \/ SearchBackspace
    \/ SearchChar
    \/ OpenSearch

SpecReissue == Init /\ [][NextReissue]_vars

\* the match navigation of n, N and search-mode Enter on every match list a
\* search of the documents produces, at every index into it
InitNav ==
    /\ \E lines \in Docs, p \in BOOLEAN, c \in QueryKeys :
         /\ content = lines
         /\ toc_entries = extract_toc(lines)
         /\ picker = p
         /\ \E outcomes \in Answers(lines, LoopOutcomes) :
              rendered = build_content_elements(lines, p, outcomes)
         /\ search_query = <<c>>
         /\ search_matches = search_rows(rendered, 1, 0, to_lowercase(<<c>>))
    /\ current_match_idx \in 0..Max(Len(search_matches) - 1, 0)
    /\ scroll_offset = IF search_matches = <<>> THEN 0
                       ELSE search_matches[current_match_idx + 1]
    /\ search_mode \in BOOLEAN
    /\ watcher_rx = 0
    /\ toc_selected = 0
    /\ focus_toc = FALSE
    /\ should_quit = FALSE
    /\ content_height \in 1..MaxViewport
    /\ frame = NoFrame
    /\ pc = "draw"
    /\ key = NoKey
    /\ iter = IterStart
    /\ rebuild_query = <<>>

NextNav ==
    \/ WatcherSend
    \/ Draw
    \/ CheckFileChanges
    \/ SearchEnter
    \/ NextMatch
    \/ PrevMatch

SpecNav == InitNav /\ [][NextNav]_vars

\* the builder on every document of at most MaxDocLines lines of BuildLines:
\* the file starts empty and grows by a line at a time; the builder does not
\* read the viewport, which is one row high
InitBuild == Started({<<>>}, BuildOutcomes) /\ content_height = 1

NextBuild ==
    \/ WatcherSend
    \/ Draw
    \/ CheckFileAppended
    \/ NoEvent

SpecBuild == InitBuild /\ [][NextBuild]_vars

\* the check for file changes after the file grew by one line of FenceLines
CheckFenceAppended ==
    FileCheck({content} \cup
                  {Append(content, l) : l \in
                       IF Len(content) < MaxFenceLines THEN FenceLines ELSE {}},
              FenceOutcomes, FALSE)

\* the builder on every document of at most MaxFenceLines lines of
\* FenceLines: fences that open and close, blank and text lines inside and
\* outside of them
InitFence == Started({<<>>}, FenceOutcomes) /\ content_height = 1

NextFence ==
    \/ WatcherSend
    \/ Draw
    \/ CheckFenceAppended
    \/ NoEvent

SpecFence == InitFence /\ [][NextFence]_vars

\* the lines the file grows by in the table specification: a table row, a
\* separator row, a heading, a rule, a fence line and a plain line
TableLines ==
    {<<"|", "a", "|">>, <<"|", "-", "-", "-", "|">>, <<"#", " ", "h">>,
     <<"-", "-", "-">>, Fence, <<"a">>}

\* the check for file changes after the file grew by one line of TableLines
CheckTableAppended ==
    FileCheck({content} \cup
                  {Append(content, l) : l \in
                       IF Len(content) < MaxTableLines THEN TableLines ELSE {}},
              FenceOutcomes, FALSE)

\* the builder on every document of at most MaxTableLines lines of TableLines
InitTable == Started({<<>>}, FenceOutcomes) /\ content_height = 1

NextTable ==
    \/ WatcherSend
    \/ Draw
    \/ CheckTableAppended
    \/ NoEvent

SpecTable == InitTable /\ [][NextTable]_vars

\* the lines the file grows by in the inline specification: a link and an
\* image marker, complete, without the closing parenthesis, without the
\* parenthesis, and without the closing bracket
InlineLines ==
    {<<"[", "a", "]", "(", "u", ")">>, <<"[", "a", "]", "(", "u">>,
     <<"[", "a", "]", "b">>, <<"[", "a">>,
     <<"x", "!", "[", "a", "]", "(", "u", ")">>,
     <<"!", "[", "a", "]", "(", "u">>, <<"!", "[", "a", "]", "b">>,
     <<"!", "[", "a">>}

\* the check for file changes after the file grew by one line of InlineLines
CheckInlineAppended ==
    FileCheck({content} \cup
                  {Append(content, l) : l \in
                       IF Len(content) < MaxDocLines THEN InlineLines ELSE {}},
              FenceOutcomes, FALSE)

\* the builder on every document of at most MaxDocLines lines of InlineLines
InitInline == Started({<<>>}, FenceOutcomes) /\ content_height = 1

NextInline ==
    \/ WatcherSend
    \/ Draw
    \/ CheckInlineAppended
    \/ NoEvent

SpecInline == InitInline /\ [][NextInline]_vars

\* the characters of the texts of the HTML specification
HtmlChars == {"&", "<", "l", "t", ";"}

\* the texts of at most MaxHtmlLen characters
HtmlTexts == UNION {[1..n -> HtmlChars] : n \in 0..MaxHtmlLen}

\* a diagram source on its way through the HTML fallback: content holds the
\* text as its only line and pc tells whether it is the source or its HTML
InitHtml ==
    /\ \E s \in HtmlTexts : content = <<s>>
    /\ pc = "source"
    /\ rendered = <<>>
    /\ toc_entries = <<>>
    /\ picker = FALSE
    /\ watcher_rx = 0
    /\ scroll_offset = 0
    /\ toc_selected = 0
    /\ focus_toc = FALSE
    /\ should_quit = FALSE
    /\ search_mode = FALSE
    /\ search_query = <<>>
    /\ search_matches = <<>>
    /\ current_match_idx = 0
    /\ content_height = 1
    /\ frame = NoFrame
    /\ key = NoKey
    /\ iter = IterStart
    /\ rebuild_query = <<>>

\* html_encode(&source) of the fallback
HtmlEncode ==
    /\ pc = "source"
    /\ content' = <<html_encode(content[1])>>
    /\ pc' = "html"
    /\ UNCHANGED <<watcher_rx, rendered, toc_entries, picker, scroll_offset,
                   toc_vars, should_quit, search_mode, search_vars,
                   content_height, frame, key, iter, rebuild_query>>

\* html_decode(&caps[1]) of the block found in the page
HtmlDecode ==
    /\ pc = "html"
    /\ content' = <<html_decode(content[1])>>
    /\ pc' = "source"
    /\ UNCHANGED <<watcher_rx, rendered, toc_entries, picker, scroll_offset,
                   toc_vars, should_quit, search_mode, search_vars,
                   content_height, frame, key, iter, rebuild_query>>

NextHtml ==
    \/ HtmlEncode
    \/ HtmlDecode

SpecHtml == InitHtml /\ [][NextHtml]_vars

----------------------------------------------------------------------------
(* Properties.                                                             *)

\* the largest offset the painter scrolls to: max(0, totalRows - height)
max_scroll(elements, height) == Max(0, total_content_rows(elements) - height)

\* C1: after every paint the stored app.scroll_offset is at most
\* max(0, totalRows - viewportHeight), whatever scroll keys, heading jumps
\* and rebuilds came before
C1_StoredOffsetClamped ==
    pc = "watch" => scroll_offset <= max_scroll(rendered, content_height)

\* the absolute row element i starts at: the heights of the elements before it
RECURSIVE start_row(_, _)
start_row(elements, i) ==
    IF i <= 1 THEN 0
    ELSE start_row(elements, i - 1) + row_height(elements[i - 1])

\* C2: in every built element sequence the row heights sum to totalRows,
\* every element is at least one row high, and every absolute row below
\* totalRows lies in the interval [start, start + height) of exactly one
\* element
C2_RowIndex ==
    LET total == total_content_rows(rendered)
        covers(i, r) ==
            /\ start_row(rendered, i) <= r
            /\ r < start_row(rendered, i) + row_height(rendered[i])
    IN /\ start_row(rendered, Len(rendered) + 1) = total
       /\ \A i \in 1..Len(rendered) : row_height(rendered[i]) >= 1
       /\ \A r \in 0..(total - 1) :
            Cardinality({i \in 1..Len(rendered) : covers(i, r)}) = 1

\* a built sequence with a block of the least height, a placeholder or a
\* fallback, and several elements
C2_Witness ==
    /\ Len(rendered) >= 2
    /\ \E i \in 1..Len(rendered) :
         rendered[i].kind = "Image" /\ rendered[i].height = 2
    /\ \E i \in 1..Len(rendered) : rendered[i].kind # "Image"

\* text contains query when letter case is ignored
occurs_ignoring_case(text, query) ==
    \E k \in 0..(Len(text) - Len(query)) :
        \A j \in 1..Len(query) :
            char_to_lowercase(text[k + j]) = char_to_lowercase(query[j])

\* the one-row elements whose flattened text contains the query
matching_elements(elements, query) ==
    {i \in 1..Len(elements) :
        /\ elements[i].kind # "Image"
        /\ occurs_ignoring_case(flat_text(elements[i].spans), query)}

\* the search keys that recompute the matches were handled in this iteration
recomputed == pc = "draw" /\ search_mode /\ key.code \in {"Char", "Backspace"}

\* C3: after a search recompute with a non-empty query the match list is
\* strictly ascending and holds exactly the starting rows of the TextLine and
\* ImagePlaceholder elements whose flattened text contains the query with
\* case ignored, one entry for each such element and none for an Image
C3_MatchList ==
    (recomputed /\ search_query # <<>>) =>
        LET hits == matching_elements(rendered, search_query)
        IN /\ \A k \in 1..(Len(search_matches) - 1) :
                search_matches[k] < search_matches[k + 1]
           /\ {search_matches[k] : k \in 1..Len(search_matches)} =
                  {start_row(rendered, i) : i \in hits}
           /\ Len(search_matches) = Cardinality(hits)

\* a recompute that found a match below an Image, in a letter case other
\* than the query's
C3_Witness ==
    /\ recomputed
    /\ search_query = <<"B">>
    /\ search_matches # <<>>
    /\ \E i \in 1..Len(rendered) :
         /\ rendered[i].kind = "Image"
         /\ search_matches[Len(search_matches)] > start_row(rendered, i)

\* C4: a search recompute that finds a match sets current_match_idx to 0 and
\* the scroll offset to the first match's row; one that finds none leaves
\* the scroll offset as it was
C4_RecomputeJumps ==
    [][(pc = "poll" /\ search_mode /\ key'.code \in {"Char", "Backspace"}) =>
           IF search_matches' # <<>>
           THEN current_match_idx' = 0 /\ scroll_offset' = search_matches'[1]
           ELSE scroll_offset' = scroll_offset]_vars

\* a recompute moved the view down to its first match
C4_Witness ==
    /\ recomputed
    /\ search_matches # <<>>
    /\ current_match_idx = 0
    /\ scroll_offset = search_matches[1]
    /\ scroll_offset > 0

\* C5: whenever the match list is not empty, current_match_idx is an index
\* into it
C5_IndexInRange ==
    search_matches # <<>> =>
        0 <= current_match_idx /\ current_match_idx < Len(search_matches)

\* Enter moved to the last of several matches
C5_Witness ==
    /\ pc = "draw"
    /\ search_mode
    /\ key = Key("Enter", "")
    /\ Len(search_matches) >= 2
    /\ current_match_idx = Len(search_matches) - 1

\* current_match_idx after k steps of n (forward) or N from idx
RECURSIVE nav_times(_, _, _, _)
nav_times(k, idx, len, forward) ==
    IF k = 0 THEN idx
    ELSE nav_times(k - 1,
                   IF forward THEN next_match_idx(idx, len)
                   ELSE prev_match_idx(idx, len),
                   len, forward)

\* C6: with a match list of length n > 0, a step of next (n, search-mode
\* Enter) or prev (N) moves current_match_idx by one, next wrapping from
\* n - 1 to 0 and prev from 0 to n - 1, sets the scroll offset to
\* search_matches[current_match_idx], and n steps in one direction return
\* to the index they started from
C6_CyclicNavigation ==
    [][(/\ pc = "poll"
        /\ search_matches # <<>>
        /\ \/ ~search_mode /\ key' \in {Key("Char", "n"), Key("Char", "N")}
           \/ search_mode /\ key' = Key("Enter", "")) =>
           LET n == Len(search_matches)
               idx == current_match_idx
               forward == key' # Key("Char", "N")
           IN /\ search_matches' = search_matches
              /\ current_match_idx' =
                     IF forward THEN (IF idx = n - 1 THEN 0 ELSE idx + 1)
                     ELSE (IF idx = 0 THEN n - 1 ELSE idx - 1)
              /\ scroll_offset' = search_matches[current_match_idx' + 1]
              /\ nav_times(n, idx, n, forward) = idx]_vars

\* N wrapped from the first of several matches to the last
C6_Witness ==
    /\ pc = "draw"
    /\ key = Key("Char", "N")
    /\ Len(search_matches) >= 3
    /\ current_match_idx = Len(search_matches) - 1
    /\ scroll_offset = search_matches[Len(search_matches)]

\* C7: a rebuild replaces the element sequence and the TOC with those of the
\* new content and leaves the search query, the match list,
\* current_match_idx, the stored scroll offset, the TOC selection and the
\* focus as they were
C7_RebuildFrame ==
    [][(pc = "watch" /\ iter'.rebuilds = 1) =>
           /\ toc_entries' = extract_toc(content')
           /\ \E outcomes \in Answers(content', LoopOutcomes) :
                rendered' = build_content_elements(content', picker, outcomes)
           /\ UNCHANGED <<search_query, search_matches, current_match_idx,
                          scroll_offset, toc_selected, focus_toc>>]_vars

\* a rebuild left a match list that a search of the new elements would not
\* produce, and a scroll offset below the top
C7_Witness ==
    /\ pc = "poll"
    /\ iter.rebuilds = 1
    /\ search_query # <<>>
    /\ search_matches # <<>>
    /\ search_matches #
           search_rows(rendered, 1, 0, to_lowercase(search_query))
    /\ scroll_offset > 0

\* C8: when the query a rebuild met is typed again after it, the match list
\* is the one a search of the new element sequence produces
C8_Reissue ==
    (recomputed /\ key.code = "Char" /\ rebuild_query # <<>>
                /\ search_query = rebuild_query) =>
        LET hits == matching_elements(rendered, search_query)
        IN /\ Len(search_matches) = Cardinality(hits)
           /\ \A k \in 1..Len(search_matches) :
                \E i \in hits :
                    /\ search_matches[k] = start_row(rendered, i)
                    /\ Cardinality({j \in hits : j < i}) = k - 1

\* the query of the last rebuild was typed again and found matches
C8_Witness ==
    /\ recomputed
    /\ key.code = "Char"
    /\ rebuild_query # <<>>
    /\ search_query = rebuild_query
    /\ search_matches # <<>>

\* C9, as stated: a check for file changes that finds signals queued drains
\* them all and re-reads and rebuilds once; one that finds none does not
\* rebuild; no signal leaves the queue at any other step
C9_OneRebuildPerDrain ==
    [][/\ (pc = "watch" /\ pc' = "poll") =>
            IF watcher_rx > 0
            THEN /\ watcher_rx' = 0
                 /\ iter'.drained = watcher_rx
                 /\ iter'.reads = 1
                 /\ iter'.rebuilds = 1
            ELSE /\ iter'.reads = 0
                 /\ iter'.rebuilds = 0
                 /\ UNCHANGED <<watcher_rx, doc_vars>>
       /\ ~(pc = "watch" /\ pc' = "poll") =>
            watcher_rx' >= watcher_rx /\ UNCHANGED doc_vars]_vars

\* C9, amended: a check for file changes that finds signals queued drains
\* them all and re-reads the file once, and rebuilds once if the read
\* succeeds and not at all if it fails; one that finds none neither reads
\* nor rebuilds; no signal leaves the queue at any other step
C9_OneReadPerDrain ==
    [][/\ (pc = "watch" /\ pc' = "poll") =>
            IF watcher_rx > 0
            THEN /\ watcher_rx' = 0
                 /\ iter'.drained = watcher_rx
                 /\ iter'.reads = 1
                 /\ iter'.rebuilds = IF iter'.read_ok THEN 1 ELSE 0
                 /\ ~iter'.read_ok => UNCHANGED doc_vars
            ELSE /\ iter'.reads = 0
                 /\ iter'.rebuilds = 0
                 /\ UNCHANGED <<watcher_rx, doc_vars>>
       /\ ~(pc = "watch" /\ pc' = "poll") =>
            watcher_rx' >= watcher_rx /\ UNCHANGED doc_vars]_vars

\* one check drained two signals into one rebuild, and a signal sent after
\* it is queued
C9_Witness ==
    /\ pc = "poll"
    /\ iter.drained = 2
    /\ iter.reads = 1
    /\ iter.rebuilds = 1
    /\ watcher_rx = 1

\* the absolute row each screen row of the frame shows
RECURSIVE shown(_)
shown(drawn) ==
    IF drawn = <<>> THEN <<>>
    ELSE [k \in 1..Head(drawn).rows |->
             [y |-> Head(drawn).y + k - 1, row |-> Head(drawn).row + k - 1]]
           \o shown(Tail(drawn))

\* the last height rows of a document of total rows, from the top of the
\* screen down
last_rows(total, height) ==
    [k \in 1..height |-> [y |-> k - 1, row |-> total - height + k - 1]]

\* the frame was drawn for a stored offset at or below the last window
painted_at_end ==
    /\ pc = "watch"
    /\ total_content_rows(rendered) >= content_height
    /\ scroll_offset >= total_content_rows(rendered) - content_height

\* C10, as stated: painting any element sequence of at least viewportHeight
\* rows at an offset of totalRows - viewportHeight or more clamps the offset
\* to totalRows - viewportHeight and draws the last viewportHeight rows
C10_LastWindow ==
    painted_at_end =>
        /\ frame.scroll = total_content_rows(rendered) - content_height
        /\ shown(frame.drawn) =
               last_rows(total_content_rows(rendered), content_height)

\* C10, amended: the same when row totalRows - viewportHeight is the first
\* row of an element, as it always is without an Image of several rows
C10_LastWindowAligned ==
    (/\ painted_at_end
     /\ \E i \in 1..Len(rendered) :
          start_row(rendered, i) =
              total_content_rows(rendered) - content_height) =>
        /\ frame.scroll = total_content_rows(rendered) - content_height
        /\ shown(frame.drawn) =
               last_rows(total_content_rows(rendered), content_height)

\* an offset past the last window was clamped and the window drawn holds an
\* Image of several rows
C10_Witness ==
    /\ painted_at_end
    /\ scroll_offset > frame.scroll
    /\ frame.scroll > 0
    /\ \E k \in 1..Len(frame.drawn) : frame.drawn[k].rows >= 2

\* C11: the offset a frame is painted with lies between 0 and
\* max(0, totalRows - viewportHeight) whatever offset is stored, and the
\* stored offset never falls below 0
C11_EffectiveOffset ==
    /\ scroll_offset >= 0
    /\ pc = "watch" =>
         /\ 0 <= frame.scroll
         /\ frame.scroll <= max_scroll(rendered, content_height)
         /\ frame.scroll <= scroll_offset

\* a frame was painted for a stored offset beyond the last window of a
\* document longer than the viewport
C11_Witness ==
    /\ pc = "watch"
    /\ total_content_rows(rendered) > content_height
    /\ scroll_offset > max_scroll(rendered, content_height)
    /\ frame.scroll = max_scroll(rendered, content_height)

\* the screen row the painter has reached when it comes to element i: the
\* rows drawn for the elements before it
rows_drawn_before(drawn, i) ==
    LET earlier == SelectSeq(drawn, LAMBDA d : d.element < i)
    IN IF earlier = <<>> THEN 0
       ELSE earlier[Len(earlier)].y + earlier[Len(earlier)].rows

\* C12: in a painted frame an Image that starts above the offset and ends
\* below it draws no row; an Image that starts at or below the offset and is
\* reached before the viewport is full is drawn at the screen row reached,
\* min(height, viewportHeight - yOffset) rows high, and the next widget
\* follows that many rows further down
C12_BlockRows ==
    pc = "watch" =>
        \A i \in 1..Len(rendered) :
            rendered[i].kind = "Image" =>
                LET first == start_row(rendered, i)
                    y == rows_drawn_before(frame.drawn, i)
                    mine == SelectSeq(frame.drawn, LAMBDA d : d.element = i)
                IN IF first < frame.scroll
                   THEN mine = <<>>
                   ELSE IF y >= content_height THEN mine = <<>>
                   ELSE /\ Len(mine) = 1
                        /\ mine[1].y = y
                        /\ mine[1].row = first
                        /\ mine[1].rows =
                               Min(rendered[i].height, content_height - y)
                        /\ rows_drawn_before(frame.drawn, i + 1) =
                               y + mine[1].rows

\* a frame whose window starts inside an Image, which is left out of it while
\* the row after it is drawn
C12_Witness ==
    /\ pc = "watch"
    /\ \E i \in 1..Len(rendered) :
         /\ rendered[i].kind = "Image"
         /\ start_row(rendered, i) < frame.scroll
         /\ frame.scroll < start_row(rendered, i + 1)
         /\ \A k \in 1..Len(frame.drawn) : frame.drawn[k].element # i
    /\ frame.drawn # <<>>

\* text contains part, letter case kept
occurs_exactly(text, part) ==
    \E k \in 0..(Len(text) - Len(part)) :
        \A j \in 1..Len(part) : text[k + j] = part[j]

\* the one-row elements whose flattened text contains the text of the TOC
\* entry at the 0-based index, none when the index is out of range
heading_elements(elements, toc, toc_index) ==
    IF toc_index >= Len(toc) THEN {}
    ELSE {i \in 1..Len(elements) :
             /\ elements[i].kind # "Image"
             /\ occurs_exactly(flat_text(elements[i].spans),
                               toc[toc_index + 1].text)}

\* C13: Enter with the TOC focused sets the scroll offset to the starting row
\* of the first TextLine or ImagePlaceholder whose flattened text contains
\* the selected entry's text, letter case kept, and returns the focus to the
\* content; when no element contains it or the selected index is out of
\* range, the scroll offset and the focus stay as they were
C13_JumpToHeading ==
    [][(pc = "poll" /\ ~search_mode /\ focus_toc /\ key' = Key("Enter", "")) =>
           LET found == heading_elements(rendered, toc_entries, toc_selected)
           IN IF found # {}
              THEN /\ \E i \in found :
                        /\ \A j \in found : i <= j
                        /\ scroll_offset' = start_row(rendered, i)
                   /\ focus_toc' = FALSE
              ELSE UNCHANGED <<scroll_offset, focus_toc>>]_vars

\* the jump to the second heading of the document was taken from another row
C13_Witness ==
    /\ pc = "draw"
    /\ key = Key("Enter", "")
    /\ ~focus_toc
    /\ toc_selected = 1
    /\ Len(toc_entries) = 2
    /\ scroll_offset > 0
    /\ heading_elements(rendered, toc_entries, 1) # {}
    /\ \E i \in heading_elements(rendered, toc_entries, 1) :
         /\ \A j \in heading_elements(rendered, toc_entries, 1) : i <= j
         /\ scroll_offset = start_row(rendered, i)

\* C14: n, N and search-mode Enter with an empty match list change neither
\* current_match_idx, nor the scroll offset, nor the query, nor the match list
C14_EmptyNavigation ==
    [][(/\ pc = "poll"
        /\ search_matches = <<>>
        /\ \/ ~search_mode /\ key' \in {Key("Char", "n"), Key("Char", "N")}
           \/ search_mode /\ key' = Key("Enter", "")) =>
           UNCHANGED <<current_match_idx, scroll_offset, search_query,
                       search_matches>>]_vars

\* N was pressed with no match and the view stayed below the top
C14_Witness ==
    /\ pc = "draw"
    /\ key = Key("Char", "N")
    /\ search_matches = <<>>
    /\ scroll_offset > 0

\* a search key that recomputes the matches is handled and leaves the query
\* empty
recomputes_empty ==
    /\ pc = "poll"
    /\ search_mode
    /\ key'.code \in {"Char", "Backspace"}
    /\ search_query' = <<>>

\* C15, as stated: a search recompute with an empty query changes neither the
\* match list, nor current_match_idx, nor the scroll offset
C15_EmptyQueryNoOp ==
    [][recomputes_empty =>
           UNCHANGED <<search_matches, current_match_idx, scroll_offset>>]_vars

\* C15, amended: a search recompute with an empty query empties the match
\* list, sets current_match_idx to 0 and leaves the scroll offset as it was
C15_EmptyQueryClears ==
    [][recomputes_empty =>
           /\ search_matches' = <<>>
           /\ current_match_idx' = 0
           /\ scroll_offset' = scroll_offset]_vars

\* Backspace took the last character of a query that had matches, and the
\* view stayed at the match it was at
C15_Witness ==
    /\ pc = "draw"
    /\ search_mode
    /\ key = Key("Backspace", "")
    /\ search_query = <<>>
    /\ search_matches = <<>>
    /\ scroll_offset > 0

\* the queries of the model: those the keys can type, and the one typed
Queries == {<<>>, search_query} \cup {<<c>> : c \in QueryKeys}

\* C16: a second search with the same query over the same elements leaves
\* the match list, current_match_idx (0) and the scroll offset as the first
\* search left them
C16_SearchIdempotent ==
    \A q \in Queries :
        LET once == update_search_matches([App EXCEPT !.search_query = q])
            twice == update_search_matches(once)
        IN /\ twice.search_matches = once.search_matches
           /\ twice.current_match_idx = once.current_match_idx
           /\ once.current_match_idx = 0
           /\ twice.scroll_offset = once.scroll_offset

\* a search was made that found several matches and moved the view, and
\* making it again would change nothing
C16_Witness ==
    /\ recomputed
    /\ key.code = "Char"
    /\ Len(search_matches) >= 2
    /\ search_matches[1] > 0
    /\ scroll_offset = search_matches[1]
    /\ update_search_matches(App) = App

\* every answer the resolvers can give for one reference
AllOutcomes ==
    {Outcome(r1, r2, image) :
        r1 \in {"ok", "err", "panic"}, r2 \in {"ok", "err", "panic"},
        image \in {<<>>, <<60, 1>>, <<60, 5>>, <<1, 100>>, <<100, 8>>}}

\* the elements are the parsed lines' elements in the order of the lines:
\* the TextLine of a text line, one element or more for a reference
RECURSIVE emitted_in_order(_, _)
emitted_in_order(items, elements) ==
    IF items = <<>> THEN elements = <<>>
    ELSE \E n \in 1..Len(elements) :
             /\ Head(items).kind = "Text" =>
                    n = 1 /\ elements[1] = TextLine(Head(items).spans)
             /\ emitted_in_order(Tail(items),
                                 SubSeq(elements, n + 1, Len(elements)))

\* C17: whatever the resolvers answer and whether or not there is a picker,
\* the build adds at least one element for every parsed line after the
\* elements of the lines before it, and the built sequence holds the
\* elements of all parsed lines in document order
C17_EveryLineEmitted ==
    LET items == markdown_to_lines_with_images(content)
    IN /\ emitted_in_order(items, rendered)
       /\ \A k \in 1..Len(items), p \in BOOLEAN, o \in AllOutcomes :
            LET out == build_item(rendered, items[k], p, o)
            IN /\ Len(out) > Len(rendered)
               /\ SubSeq(out, 1, Len(rendered)) = rendered

\* with a picker, an image that failed to load is followed by the text line
\* after it
C17_Witness ==
    /\ picker
    /\ Len(rendered) = 2
    /\ rendered[1].kind = "ImagePlaceholder"
    /\ rendered[2] = TextLine(<<Span(<<"a">>, "raw")>>)

\* the lines of a diagram source: the pieces between line feeds, a line feed
\* at the end closing the last line
source_rows(source) ==
    LET pieces == str_split(source, NL)
    IN IF source = <<>> THEN <<>>
       ELSE IF pieces[Len(pieces)] = <<>>
       THEN SubSeq(pieces, 1, Len(pieces) - 1)
       ELSE pieces

\* chunk is the boxed source: a header row naming the diagram, one Text row
\* per source line, a footer row, and then blanks blank rows
boxed_source(chunk, source, blanks) ==
    LET rows == source_rows(source)
        n == Len(rows)
    IN /\ Len(chunk) = n + 2 + blanks
       /\ \A j \in 1..Len(chunk) : chunk[j].kind = "TextLine"
       /\ starts_with(flat_text(chunk[1].spans), <<BoxTL>>)
       /\ contains(flat_text(chunk[1].spans),
                   <<"m", "e", "r", "m", "a", "i", "d">>)
       /\ \A j \in 1..n :
              flat_text(chunk[j + 1].spans) = <<BoxV, " ">> \o rows[j]
       /\ starts_with(flat_text(chunk[n + 2].spans), <<BoxBL>>)
       /\ \A j \in n + 3..Len(chunk) : chunk[j] = TextLine(<<>>)

\* the diagram references of the document with every answer of the
\* resolvers and both states of the capability token
diagram_cases ==
    LET items == markdown_to_lines_with_images(content)
    IN {<<items[k], p, o>> : k \in {j \in 1..Len(items) :
                                         items[j].kind = "MermaidRef"},
                             p \in BOOLEAN, o \in AllOutcomes}

\* the diagram of the case becomes one Image exactly if rendering and
\* rasterization succeed and there is a token, and otherwise the boxed
\* source followed by blanks blank rows, without a placeholder
diagram_built(c, blanks) ==
    LET chunk == build_item(<<>>, c[1], c[2], c[3])
        drawable == /\ c[3].render1 = "ok" \/ c[3].render2 = "ok"
                    /\ c[3].image # <<>>
                    /\ c[2]
    IN /\ drawable <=> Len(chunk) = 1 /\ chunk[1].kind = "Image"
       /\ ~drawable => boxed_source(chunk, c[1].source, blanks)
       /\ \A j \in 1..Len(chunk) : chunk[j].kind # "ImagePlaceholder"

\* C18 as stated: a diagram reference becomes exactly one Block if and only
\* if the render succeeds, the rasterization succeeds and a capability token
\* is present; otherwise it becomes the boxed source, which is a header row,
\* one Text row per source line and a footer row and nothing else; it never
\* becomes a Placeholder
C18_DiagramOrBox == \A c \in diagram_cases : diagram_built(c, 0)

\* C18 as the code has it: a diagram reference becomes exactly one Block if
\* and only if the render succeeds, the rasterization succeeds and a
\* capability token is present; otherwise it becomes the boxed source (a
\* header row, one Text row per source line, a footer row) followed by one
\* blank Text row; it never becomes a Placeholder
C18_DiagramOrBoxAndBlank == \A c \in diagram_cases : diagram_built(c, 1)

\* with a token, a diagram that could not be drawn shows as its boxed source
\* and a blank row, before the text line after it
C18_Witness ==
    /\ picker
    /\ Len(rendered) = 5
    /\ flat_text(rendered[2].spans) = <<BoxV, " ", "a">>
    /\ rendered[4] = TextLine(<<>>)
    /\ \E c \in diagram_cases : c[1].source = <<"a">>

\* the image references of the document with every answer of the resolver
\* and both states of the capability token
image_cases ==
    LET items == markdown_to_lines_with_images(content)
    IN {<<items[k], p, o>> : k \in {j \in 1..Len(items) :
                                         items[j].kind = "ImageRef"},
                             p \in BOOLEAN, o \in AllOutcomes}

\* the text of the placeholder of an image with the alt text
placeholder_text(alt) ==
    IF alt = <<>>
    THEN <<"[", "I", "m", "a", "g", "e", ":", " ", "i", "m", "a", "g", "e",
           "]">>
    ELSE <<"[", "I", "m", "a", "g", "e", ":", " ">> \o alt \o <<"]">>

\* C19: an image reference becomes exactly one element: a Block if there is
\* a capability token and the resolver returns the image, and otherwise (the
\* resolver fails, or there is no token whatever the resolver would return)
\* one Placeholder whose text is "[Image: <alt>]", or "[Image: image]" for
\* an empty alt
C19_ImageOrPlaceholder ==
    \A c \in image_cases :
        LET chunk == build_item(<<>>, c[1], c[2], c[3])
        IN /\ Len(chunk) = 1
           /\ IF c[2] /\ c[3].image # <<>>
              THEN chunk[1].kind = "Image"
              ELSE /\ chunk[1].kind = "ImagePlaceholder"
                   /\ flat_text(chunk[1].spans) = placeholder_text(c[1].alt)

\* with a token, an image without alt text that failed to load shows as the
\* placeholder with the default label
C19_Witness ==
    /\ picker
    /\ \E c \in image_cases : c[1].alt = <<>>
    /\ Len(rendered) = 1
    /\ rendered[1].kind = "ImagePlaceholder"
    /\ flat_text(rendered[1].spans) = placeholder_text(<<>>)

\* the fenced blocks of the document in order: a line that starts with three
\* backticks opens a block and the next such line closes it; tag is the text
\* after the backticks of the opening line, interior the lines in between
RECURSIVE blocks_from(_, _, _)
blocks_from(lines, i, open) ==
    IF i > Len(lines)
    THEN IF open = <<>> THEN <<>> ELSE <<[open[1] EXCEPT !.closed = FALSE]>>
    ELSE IF starts_with(lines[i], Fence)
    THEN IF open = <<>>
         THEN blocks_from(lines, i + 1,
                  <<[tag |-> trim(trim_start_matches(lines[i], Backtick)),
                     interior |-> <<>>, closed |-> TRUE]>>)
         ELSE <<open[1]>> \o blocks_from(lines, i + 1, <<>>)
    ELSE IF open = <<>> THEN blocks_from(lines, i + 1, open)
    ELSE blocks_from(lines, i + 1,
             <<[open[1] EXCEPT !.interior = Append(@, lines[i])]>>)

fenced_blocks(lines) == blocks_from(lines, 1, <<>>)

\* the lines joined with a line feed between neighbours
RECURSIVE join_lines(_)
join_lines(lines) ==
    IF lines = <<>> THEN <<>>
    ELSE IF Len(lines) = 1 THEN lines[1]
    ELSE lines[1] \o <<NL>> \o join_lines(Tail(lines))

\* the interior lines of the blocks, one after the other
RECURSIVE interiors(_)
interiors(blocks) ==
    IF blocks = <<>> THEN <<>>
    ELSE Head(blocks).interior \o interiors(Tail(blocks))

\* the parsed lines that are one run of the style
styled_items(items, style) ==
    SelectSeq(items, LAMBDA item : /\ item.kind = "Text"
                                   /\ Len(item.spans) = 1
                                   /\ item.spans[1].style = style)

\* C20: the classifier emits one DiagramRef for every block opened with the
\* tag mermaid and closed by a later fence line, in document order, its
\* source the interior lines joined by line feeds as they are, and no code
\* row, header or footer for such a block; the blocks with another tag emit
\* no DiagramRef, one code row per interior line, and their headers and
\* footers
C20_FencedBlocks ==
    LET mermaid == <<"m", "e", "r", "m", "a", "i", "d">>
        items == markdown_to_lines_with_images(content)
        blocks == fenced_blocks(content)
        diagrams == SelectSeq(blocks, LAMBDA b : b.tag = mermaid /\ b.closed)
        others == SelectSeq(blocks, LAMBDA b : b.tag # mermaid)
        closed_others == SelectSeq(others, LAMBDA b : b.closed)
        refs == SelectSeq(items, LAMBDA item : item.kind = "MermaidRef")
        code_rows == styled_items(items, "Green")
        code_lines == interiors(others)
    IN /\ Len(refs) = Len(diagrams)
       /\ \A k \in 1..Len(refs) :
              refs[k].source = join_lines(diagrams[k].interior)
       /\ Len(code_rows) = Len(code_lines)
       /\ \A k \in 1..Len(code_rows) :
              code_rows[k].spans[1].content = <<BoxV, " ">> \o code_lines[k]
       /\ Len(styled_items(items, "DarkGray"))
              = Len(others) + Len(closed_others)

\* C21: decoding the encoding of a source gives the source back:
\* html_decode(html_encode(s)) = s for every text s, the ones that hold
\* entity-like character runs included
C21_RoundTrip ==
    pc = "source" => html_decode(html_encode(content[1])) = content[1]

\* the elements, the headings and the stored text come from one text: the
\* headings are those of the stored text and the elements are a build of it
one_read ==
    /\ toc_entries = extract_toc(content)
    /\ \E outcomes \in Answers(content, LoopOutcomes) :
           rendered = build_content_elements(content, picker, outcomes)

\* C22: in every state, and so at every paint, the element sequence, the
\* heading list and the stored text derive from the same read of the file;
\* the step that replaces them replaces all three at once and handles no
\* key, and a step that handles a key replaces none of them
C22_WholeRebuild ==
    /\ [](one_read /\ (frame # NoFrame =>
              frame = ui(rendered, scroll_offset, content_height,
                         search_matches, current_match_idx)))
    /\ [][/\ doc_vars' # doc_vars => key' = NoKey /\ iter'.rebuilds = 1
          /\ key' # NoKey => doc_vars' = doc_vars]_vars

\* a rebuild has just replaced the document with headings, the second of
\* them selected, by the one without
C22_Witness ==
    /\ iter.rebuilds = 1
    /\ toc_selected = 1
    /\ content = DocB
    /\ toc_entries = <<>>
    /\ one_read

\* the line is a table row: it holds a bar and its trimmed form starts with
\* one
is_table_row(line) == contains(line, <<"|">>) /\ starts_with(trim(line), <<"|">>)

\* the classifier's state before line i of the document
classified_before(i) == classify_from(ClassifierInit, SubSeq(content, 1, i - 1), 1)

\* C23: a line that is not a table row clears the in-table flag, whatever
\* kind of line it is (heading, rule, fence line, plain line): a table row
\* holding "---" that follows it outside of a fenced block is emitted as it
\* is, as one dim separator row
C23_SeparatorAfterAnyLine ==
    \A i \in 2..Len(content) :
        LET before == classified_before(i)
        IN (/\ ~is_table_row(content[i - 1])
            /\ is_table_row(content[i])
            /\ contains(content[i], <<"-", "-", "-">>)
            /\ ~before.in_code_block)
           => classify_line(before, content[i]).items
                  = Append(before.items, StyledLine(content[i], "DarkGray"))

\* 60 * (height / width) / 2 rounded to the nearest integer, halves upwards
rounded_rows(width, height) == (60 * height + width) \div (2 * width)

\* 60 * (height / width) / 2 rounded up to an integer
ceiled_rows(width, height) ==
    IF (30 * height) % width = 0 THEN (30 * height) \div width
    ELSE (30 * height) \div width + 1

\* the least of 20 and the greatest of 2 and n
within_2_20(n) == IF n < 2 THEN 2 ELSE IF n > 20 THEN 20 ELSE n

\* the Blocks the references of the document become with a capability
\* token, each with the pixel size of its decoded image
block_cases ==
    LET items == markdown_to_lines_with_images(content)
        refs == {k \in 1..Len(items) : items[k].kind # "Text"}
        drawn == {x \in refs \X AllOutcomes :
                      /\ x[2].image # <<>>
                      /\ items[x[1]].kind = "MermaidRef" =>
                             x[2].render1 = "ok" \/ x[2].render2 = "ok"}
    IN {<<build_item(<<>>, items[x[1]], TRUE, x[2])[1], x[2].image>> :
            x \in drawn}

\* C24 as stated: the row height of every Block, of an image or of a
\* diagram, is clamp(round(60 * (height / width) / 2), 2, 20) for the pixel
\* width and height of the decoded image
C24_RoundedHeight ==
    \A c \in block_cases :
        /\ c[1].kind = "Image"
        /\ c[1].height = within_2_20(rounded_rows(c[2][1], c[2][2]))

\* C24 as the code has it: the row height of every Block, of an image or of
\* a diagram, is clamp(ceil(60 * (height / width) / 2), 2, 20) for the pixel
\* width and height of the decoded image
C24_CeiledHeight ==
    \A c \in block_cases :
        /\ c[1].kind = "Image"
        /\ c[1].height = within_2_20(ceiled_rows(c[2][1], c[2][2]))

\* two images were built as Blocks, the first three rows high (as for an
\* image of 100 by 8 pixels, 2.4 rows before rounding)
C24_Witness ==
    /\ picker
    /\ Len(rendered) = 2
    /\ rendered[1].kind = "Image" /\ rendered[2].kind = "Image"
    /\ rendered[1].height = 3
    /\ \E c \in block_cases : c[2] = <<100, 8>> /\ c[1].height = 3
    /\ \E c \in block_cases : c[1].alt # rendered[1].alt

\* the first bracket of the line opens a complete form: label, "]", "(",
\* url, ")"
complete_form(line) ==
    \E k, j, m \in 1..Len(line) :
        /\ line[k] = "[" /\ \A n \in 1..(k - 1) : line[n] # "["
        /\ j > k /\ line[j] = "]" /\ \A n \in (k + 1)..(j - 1) : line[n] # "]"
        /\ j + 1 < m /\ line[j + 1] = "(" /\ line[m] = ")"

\* C25: a line whose "[" or "![" does not start a complete form (the "]" is
\* missing, the "]" is not followed by "(", or the "(" is never closed) is
\* re-emitted as it is: the flattened text of its spans and of its element is
\* the line, nothing discarded
C25_MalformedVerbatim ==
    LET items == markdown_to_lines_with_images(content)
    IN /\ Len(items) = Len(content)
       /\ Len(rendered) = Len(content)
       /\ \A i \in 1..Len(content) :
              ~complete_form(content[i]) =>
                  /\ items[i].kind = "Text"
                  /\ flat_text(items[i].spans) = content[i]
                  /\ rendered[i] = TextLine(items[i].spans)

\* C26: outside of search mode the query and the match list are empty in
\* every reachable state (search mode is left by Esc only, which clears
\* them), and so the keys n and N of normal mode change neither the current
\* index nor the scroll offset
C26_NoMatchesOutsideSearch ==
    /\ [](~search_mode => search_query = <<>> /\ search_matches = <<>>)
    /\ [][(/\ ~search_mode
           /\ pc = "poll"
           /\ key' \in {Key("Char", "n"), Key("Char", "N")}) =>
              UNCHANGED <<current_match_idx, scroll_offset>>]_vars

\* n was pressed in normal mode with the view below the top, and the view
\* stayed where it was
C26_Witness ==
    /\ ~search_mode
    /\ key = Key("Char", "n")
    /\ pc = "draw"
    /\ scroll_offset > 0
    /\ search_query = <<>>
    /\ search_matches = <<>>

\* every row of the match list is the starting row of a TextLine or an
\* ImagePlaceholder of the current elements whose text holds the query
matches_current ==
    search_matches # <<>> =>
        LET rows == {start_row(rendered, i) :
                         i \in matching_elements(rendered, search_query)}
        IN \A k \in 1..Len(search_matches) : search_matches[k] \in rows

\* right after a paint, every row drawn with a highlight holds the query
highlights_current ==
    (pc = "watch" /\ search_matches # <<>>) =>
        LET hits == matching_elements(rendered, search_query)
        IN \A n \in 1..Len(frame.drawn) :
               frame.drawn[n].highlight # "none" =>
                   frame.drawn[n].element \in hits

\* C27 as stated: in every reachable state, after rebuilds too, every row of
\* the match list is the starting row of a Text or Placeholder element of
\* the current element sequence whose flattened text contains the current
\* query with case ignored, and every row the painter highlights as a match
\* contains the query
C27_MatchesCurrent == matches_current /\ highlights_current

\* C27 as the code has it: as long as no rebuild ran while a query was
\* entered (rebuild_query is empty: none since search mode was last left),
\* every row of the match list is the starting row of a Text or Placeholder
\* element of the current element sequence whose flattened text contains the
\* current query with case ignored, and every row the painter highlights
\* contains the query
C27_MatchesCurrentUntilRebuild ==
    rebuild_query = <<>> => (matches_current /\ highlights_current)

\* a paint highlighted the current match of a search, and the document was
\* not rebuilt since
C27_Witness ==
    /\ rebuild_query = <<>>
    /\ pc = "watch"
    /\ search_mode
    /\ search_matches # <<>>
    /\ matches_current
    /\ \E n \in 1..Len(frame.drawn) : frame.drawn[n].highlight = "current"

\* the paint follows a search recompute or a step to the next match, with a
\* match list that no rebuild has outdated
painted_after_search ==
    /\ pc = "watch"
    /\ rebuild_query = <<>>
    /\ search_matches # <<>>
    /\ key.code \in {"Char", "Backspace", "Enter"}

\* C28: with a viewport of one row or more and no rebuild since the last
\* recompute, the paint that follows a recompute with a match or a step to
\* the next match draws the row matches[currentIndex] inside the viewport
\* and highlights it as the current match, also when an Image straddles the
\* top of the window
C28_CurrentMatchShown ==
    painted_after_search =>
        \E n \in 1..Len(frame.drawn) :
            /\ frame.drawn[n].row = search_matches[current_match_idx + 1]
            /\ frame.drawn[n].highlight = "current"
            /\ frame.drawn[n].rows = 1
            /\ frame.drawn[n].y \in 0..(content_height - 1)

\* the match lies below an Image that straddles the top of the window: the
\* offset was clamped into the Image
C28_Witness ==
    /\ painted_after_search
    /\ rendered[1].kind = "Image"
    /\ frame.scroll < scroll_offset
    /\ frame.scroll > 0
    /\ frame.scroll < rendered[1].height
    /\ \E n \in 1..Len(frame.drawn) : frame.drawn[n].highlight = "current"

\* the selected index is one of the heading list, 0 for an empty list
selection_in_range ==
    IF toc_entries = <<>> THEN toc_selected = 0
    ELSE toc_selected < Len(toc_entries)

\* C29 as stated: in every reachable state, after a rebuild that shrinks the
\* heading list too, the selected index is in range: below the length of a
\* non-empty heading list, and 0 for an empty one
C29_SelectionInRange == selection_in_range

\* C29 as the code has it: the selected index (0 at the start) is kept in
\* range by every step that leaves the heading list as it is; a rebuild
\* replaces the heading list and leaves the selected index as it was, in
\* range or not
C29_SelectionInRangeUntilRebuild ==
    [][/\ (toc_entries' = toc_entries /\ selection_in_range) =>
              selection_in_range'
       /\ toc_entries' # toc_entries => toc_selected' = toc_selected]_vars

\* the second heading was selected with Down, the focus on the heading list
C29_Witness ==
    /\ focus_toc
    /\ toc_selected = 1
    /\ Len(toc_entries) = 2
    /\ pc = "draw"
    /\ selection_in_range

\* C30: no line inside a fenced block is dropped, whether or not the block
\* is closed before the document ends: the interior lines of the blocks
\* opened with the tag mermaid are, block by block, the lines of the sources
\* of the emitted DiagramRefs, and the interior lines of the other blocks
\* are the code rows, in document order
C30_NoFencedLineDropped ==
    LET mermaid == <<"m", "e", "r", "m", "a", "i", "d">>
        items == markdown_to_lines_with_images(content)
        blocks == fenced_blocks(content)
        diagrams == SelectSeq(blocks, LAMBDA b : b.tag = mermaid)
        others == SelectSeq(blocks, LAMBDA b : b.tag # mermaid)
        refs == SelectSeq(items, LAMBDA item : item.kind = "MermaidRef")
        code_rows == styled_items(items, "Green")
        code_lines == interiors(others)
    IN /\ \A k \in 1..Len(diagrams) :
              diagrams[k].interior # <<>> =>
                  /\ k <= Len(refs)
                  /\ str_split(refs[k].source, NL) = diagrams[k].interior
       /\ Len(code_rows) = Len(code_lines)
       /\ \A k \in 1..Len(code_rows) :
              code_rows[k].spans[1].content = <<BoxV, " ">> \o code_lines[k]

====
